---- MODULE Spec2Model ----
(***************************************************************************)
(* A state-machine model of the Fortress anti-DDoS reverse proxy           *)
(* (src/src/...).  Each component of the adjudication core is modelled     *)
(* with its own variables and its own specification, so that a property    *)
(* of one component is checked against that component's operations:        *)
(*                                                                         *)
(*   SpecL4     L4 admission tracker and the HTTPS accept loop             *)
(*   SpecEsc    escalation controller driven by the periodic reporter      *)
(*   SpecBan    auto-ban manager                                           *)
(*   SpecPipe   request handler and adjudication pipeline                  *)
(*   SpecBlk    in-memory block-list cache of the memory store             *)
(*   SpecCookie clearance cookies of the challenge system                  *)
(*   SpecWin    sliding-window counter                                     *)
(*   SpecDist   distributed-attack detector                                *)
(*                                                                         *)
(* Time is an explicit clock variable per component; Instant::now() reads  *)
(* it.  Variables of a component that a specification does not drive keep  *)
(* their initial value.                                                    *)
(***************************************************************************)
EXTENDS Integers, Sequences, FiniteSets, TLC

VARIABLES
    \* ---- L4 tracker and accept loop (l4_tracker.rs, proxy/server.rs)
    l4_now,          \* clock read by Instant::now(), in clock ticks
    ip_states,       \* L4Tracker.ip_states: ip -> NoState or IpState
    l4_totals,       \* total_allowed / total_dropped / total_tarpitted
    conn_tasks,      \* the spawned connection-handling tasks
    \* ---- escalation controller (escalation.rs, analytics/reporter.rs)
    esc_now,               \* clock, seconds
    eval_due,              \* the reporter's escalation interval has ticked
    current_level,         \* EscalationEngine.current_level (AtomicU8)
    last_escalation,       \* Mutex<Instant>
    last_deescalation,     \* Mutex<Instant>
    escalation_counter,    \* AtomicU8
    deescalation_counter,  \* AtomicU8
    sustained_checks_required,  \* EscalationEngine field, fixed at construction
    esc_log,               \* observer: the last operation and the last level changes
    \* ---- auto-ban manager (auto_ban.rs)
    ban_now,         \* clock, seconds
    ban_history,     \* AutoBanManager.history: ip -> IpBlockHistory
    active_bans,     \* AutoBanManager.bans: ip -> BanEntry
    subnet_bans,     \* AutoBanManager.subnet_bans: subnet -> count
    ban_last,        \* observer: the last operation of the manager and its result
    \* ---- block-list cache of the memory store (storage/memory.rs)
    blk_now,         \* clock, seconds
    blocked_ips,     \* MemoryStore.blocked_ips: ip -> BlockedEntry
    blk_reader,      \* a request thread inside is_blocked
    blk_written,     \* observer: the latest block_ip / unblock_ip per ip
    blk_last,        \* observer: the last is_blocked call that returned
    \* ---- request handler and adjudication pipeline (http_handler.rs, pipeline.rs)
    req_window,      \* MemoryStore.ip_requests: requests of an ip in the current second
    rep_scores,      \* IpReputationManager.entries: ip -> score
    pipe_metrics,    \* MetricsCollector totals
    pipe_last,       \* observer: the last request handled and how it was answered
    \* ---- clearance cookies of the challenge system (protection/challenge.rs)
    ck_now,                 \* Utc::now().timestamp(), seconds
    hmac_secret,            \* ChallengeSystem.hmac_secret
    cookie_subnet_binding,  \* ChallengeSystem.cookie_subnet_binding
    ck_issued,              \* observer: the cookies generate_clearance_cookie produced
    ck_last,                \* observer: the last has_valid_clearance call
    \* ---- sliding-window counter (storage/memory.rs)
    win_now,         \* Instant::now(), in clock ticks
    win_counts,      \* SlidingWindow.counts: VecDeque<(Instant, u64)>
    win_incs,        \* observer: the instants of all increment calls
    win_last,        \* observer: the last count call and what it returned
    \* ---- distributed-attack detector (protection/distributed.rs)
    dist_now,        \* Instant::now(), seconds
    detector,        \* the DistributedDetector: its fields as a record
    reqs_prev,       \* observer: the requests that arrived one clock step ago
    reqs_cur,        \* observer: the requests that arrived at this instant
    dist_last,       \* observer: the last operation of the detector, and what
                     \* the checks of a burst returned
    \* ---- threads inside an operation that other threads can interleave with
    l4_unreg,        \* threads inside L4Tracker::unregister_connection
    esc_calls,       \* threads inside EscalationEngine::evaluate
    pipe_flight,     \* the request inside ProtectionPipeline::process
    \* ---- HTTPS connection tasks before their handshake (proxy/server.rs)
    tls_now,         \* Instant::now(), seconds
    tls_conns,       \* the spawned tasks running handle_tls_connection
    \* ---- one request through the HTTP handler (proxy/http_handler.rs)
    web_last,        \* observer: the request in hand, its verdict and its response
    \* ---- subnet windows of the memory store (storage/memory.rs)
    subnet_requests, \* MemoryStore.subnet_requests: key -> requests in this second
    subnet_log,      \* observer: the requests recorded in this second
    \* ---- slowloris detector (protection/slowloris.rs)
    slow_now,          \* Instant::now(), seconds
    slow_connections,  \* SlowlorisDetector.slow_connections: ip -> SlowConnInfo
    slow_conn_count,   \* SlowlorisDetector.slow_conn_count: ip -> u32
    slow_open,         \* the connections of each ip that are open, by header state
    slow_last,         \* observer: the last is_slowloris call and the open slow
                       \* connections of its ip at that moment
    \* ---- the rate limit of the L4 tracker seen call by call
    l4_rate_log,       \* observer: the time of every Allow per IP, and the last call
    \* ---- ASN classifier (protection/asn.rs)
    asn_last,          \* observer: the last call and what it returned
    \* ---- metrics collector as read by the reporter (analytics/collector.rs)
    total_requests,    \* MetricsCollector.total_requests
    total_blocked,     \* MetricsCollector.total_blocked
    current_rps,       \* second_snapshots.last().requests
    traffic_quiet,      \* the traffic has turned quiet for good
    \* ---- challenges and the verify endpoint (protection/challenge.rs)
    page_challenges,   \* observer: the challenges the server has put into challenge pages
    cookies_for,        \* observer: challenge -> clearance cookies issued against it
    \* ---- threads inside AutoBanManager::record_block (protection/auto_ban.rs)
    ban_calls,         \* thread -> where it is in record_block, and what it holds
    ban_created,        \* observer: ip -> record_block calls that returned true
    \* ---- the accept loop between check_connection and register_connection (proxy/server.rs)
    accept_pending,     \* the peer whose connection was allowed and is not yet registered
    \* ---- ConnectionTracker and the connection limit of the accept loop (proxy/connection.rs, proxy/server.rs)
    active,            \* ConnectionTracker::active: the ids of the registered connections
    client_conns,       \* accepted stream -> where its connection is
    \* ---- IpReputationManager (protection/ip_reputation.rs)
    rep_now,           \* Instant::now(), seconds
    rep_entries,       \* IpReputationManager::entries
    rep_quiet,         \* ip -> the IP has stopped generating events
    rep_last_check,     \* observer: ip -> what check returned last
    \* ---- threads inside DistributedDetector::check (protection/distributed.rs)
    det_calls,         \* thread -> where it is in check, and what it holds
    det_begun          \* calls of check begun so far

l4vars == <<l4_now, ip_states, l4_totals, conn_tasks>>
escvars == <<esc_now, eval_due, current_level, last_escalation, last_deescalation,
             escalation_counter, deescalation_counter, sustained_checks_required,
             esc_log>>

banvars == <<ban_now, ban_history, active_bans, subnet_bans, ban_last>>

blkvars == <<blk_now, blocked_ips, blk_reader, blk_written, blk_last>>

pipevars == <<req_window, rep_scores, pipe_metrics, pipe_last>>

ckvars == <<ck_now, hmac_secret, cookie_subnet_binding, ck_issued, ck_last>>

winvars == <<win_now, win_counts, win_incs, win_last>>

distvars == <<dist_now, detector, reqs_prev, reqs_cur, dist_last>>

threadvars == <<l4_unreg, esc_calls, pipe_flight>>

tlsvars == <<tls_now, tls_conns>>

\* The components added after the ones above
webvars == <<web_last>>

subvars == <<subnet_requests, subnet_log>>

slowvars == <<slow_now, slow_connections, slow_conn_count, slow_open, slow_last>>

ratevars == <<l4_rate_log>>

asnvars == <<asn_last>>

colvars == <<total_requests, total_blocked, current_rps, traffic_quiet>>

xchvars == <<page_challenges, cookies_for>>

bancallvars == <<ban_calls, ban_created>>

acceptvars == <<accept_pending>>

admitvars == <<active, client_conns>>

repvars == <<rep_now, rep_entries, rep_quiet, rep_last_check>>

detcallvars == <<det_calls, det_begun>>

extvars == <<tlsvars, webvars, subvars, slowvars, ratevars, asnvars, colvars, xchvars, bancallvars, acceptvars, admitvars, repvars, detcallvars>>

\* The components above, whole
corevars == <<l4vars, escvars, banvars, blkvars, pipevars, ckvars, winvars, distvars,
              threadvars>>

vars == <<corevars, extvars>>

\* What the operations of one component leave alone: the other components
NotL4 == <<escvars, banvars, blkvars, pipevars, ckvars, winvars, distvars, threadvars, extvars>>
NotEsc == <<l4vars, banvars, blkvars, pipevars, ckvars, winvars, distvars, threadvars, extvars>>
NotBan == <<l4vars, escvars, blkvars, pipevars, ckvars, winvars, distvars, threadvars, extvars>>
NotBlk == <<l4vars, escvars, banvars, pipevars, ckvars, winvars, distvars, threadvars, extvars>>
NotCk == <<l4vars, escvars, banvars, blkvars, pipevars, winvars, distvars, threadvars, extvars>>
NotWin == <<l4vars, escvars, banvars, blkvars, pipevars, ckvars, distvars, threadvars, extvars>>
\* The components other than the L4 tracker and the threads inside it
BesidesL4 == <<escvars, banvars, blkvars, pipevars, ckvars, winvars, distvars,
               esc_calls, pipe_flight, extvars>>
\* The components other than the escalation engine and the threads inside it
BesidesEsc == <<l4vars, banvars, blkvars, pipevars, ckvars, winvars, distvars,
                l4_unreg, pipe_flight, extvars>>
\* The components and threads other than the request inside process
BesidesFlight == <<l4vars, escvars, banvars, blkvars, pipevars, ckvars, winvars,
                   distvars, l4_unreg, esc_calls, extvars>>
NotDist == <<l4vars, escvars, banvars, blkvars, pipevars, ckvars, winvars, threadvars, extvars>>
\* What the connection tasks before their handshake leave alone
NotTls == <<corevars, webvars, subvars, slowvars, ratevars, asnvars, colvars, xchvars, bancallvars, acceptvars, admitvars, repvars, detcallvars>>
\* What the HTTP handler leaves alone when it answers a first request
NotWeb == <<corevars, tlsvars, subvars, slowvars, ratevars, asnvars, colvars, xchvars, bancallvars, acceptvars, admitvars, repvars, detcallvars>>
\* What the subnet windows leave alone
NotSub == <<corevars, tlsvars, webvars, slowvars, ratevars, asnvars, colvars, xchvars, bancallvars, acceptvars, admitvars, repvars, detcallvars>>
\* What the slowloris detector leaves alone
NotSlow == <<corevars, tlsvars, webvars, subvars, ratevars, asnvars, colvars, xchvars, bancallvars, acceptvars, admitvars, repvars, detcallvars>>

\* everything but the L4 tracker and the observer of its rate limit
NotL4Rate == <<escvars, banvars, blkvars, pipevars, ckvars, winvars, distvars, threadvars,
               tlsvars, webvars, subvars, slowvars, asnvars, colvars, xchvars, bancallvars, acceptvars, admitvars, repvars, detcallvars>>

NotAsn == <<corevars, tlsvars, webvars, subvars, slowvars, ratevars, colvars, xchvars, bancallvars, acceptvars, admitvars, repvars, detcallvars>>

\* everything but the escalation engine and the collector
NotQuiet == <<l4vars, banvars, blkvars, pipevars, ckvars, winvars, distvars, threadvars,
              tlsvars, webvars, subvars, slowvars, ratevars, asnvars, xchvars, bancallvars, acceptvars, admitvars, repvars, detcallvars>>

NotDetCalls == <<l4vars, escvars, banvars, blkvars, pipevars, ckvars, winvars, threadvars,
    tlsvars, webvars, subvars, slowvars, ratevars, asnvars, colvars, xchvars, bancallvars, acceptvars, admitvars, repvars>>

NotRep == <<l4vars, escvars, banvars, blkvars, pipevars, ckvars, winvars, distvars, threadvars,
    tlsvars, webvars, subvars, slowvars, ratevars, asnvars, colvars, xchvars, bancallvars, acceptvars, admitvars, detcallvars>>

NotAdmit == <<l4vars, escvars, banvars, blkvars, pipevars, ckvars, winvars, distvars, threadvars,
    tlsvars, webvars, subvars, slowvars, ratevars, asnvars, colvars, xchvars, bancallvars, acceptvars, repvars, detcallvars>>

NotAcceptSteps == <<escvars, banvars, blkvars, pipevars, ckvars, winvars, distvars, threadvars,
    tlsvars, webvars, subvars, slowvars, ratevars, asnvars, colvars, xchvars, bancallvars, admitvars, repvars, detcallvars>>

NotBanCalls == <<l4vars, escvars, blkvars, pipevars, ckvars, winvars, distvars, threadvars,
    tlsvars, webvars, subvars, slowvars, ratevars, asnvars, colvars, xchvars, acceptvars, admitvars, repvars, detcallvars>>

NotExchange == <<corevars, tlsvars, webvars, subvars, slowvars, ratevars, asnvars, colvars, bancallvars, acceptvars, admitvars, repvars, detcallvars>>

(***************************************************************************)
(* Shared helpers                                                          *)
(***************************************************************************)
Min(a, b) == IF a <= b THEN a ELSE b
Max(a, b) == IF a >= b THEN a ELSE b

RECURSIVE SeqSum(_)
SeqSum(s) == IF s = <<>> THEN 0 ELSE Head(s) + SeqSum(Tail(s))

(***************************************************************************)
(* L4 admission tracker  (src/src/protection/l4_tracker.rs)                *)
(* and the HTTPS accept loop (src/src/proxy/server.rs)                     *)
(***************************************************************************)
L4Ips == {"10.0.0.1", "10.0.0.2"}

\* bounds of the L4 model
MaxConnTasks == 3          \* connection tasks ever spawned
MaxL4Now == 90             \* last clock value, seconds
L4TickSecs == 30           \* the clock advances in steps of this many seconds
MaxL4Total == 4            \* cap of the L4 metric counters
L4TicksPerSec == 2         \* resolution of the clock

\* L4ProtectionConfig as configured for the model
max_concurrent_per_ip == 2
connection_rate_per_ip_per_sec == 2
tarpit_enabled == TRUE

\* program constants
L4RateWindowSecs == 1      \* check_connection: one_sec_ago
L4IdleSecs == 60           \* cleanup: cutoff

NoState == [present |-> FALSE, concurrent |-> 0, recent_connects |-> <<>>]

ConnIds == 1..MaxConnTasks

L4Init ==
    /\ l4_now = 0
    /\ ip_states = [ip \in L4Ips |-> NoState]
    /\ l4_totals = [allowed |-> 0, dropped |-> 0, tarpitted |-> 0]
    /\ conn_tasks = [c \in ConnIds |-> [st |-> "unused", ip |-> "none"]]

\* AtomicU64::fetch_add on a metric counter (capped in the model)
BumpTotal(tot, field) ==
    [tot EXCEPT ![field] = Min(@ + 1, MaxL4Total)]

\* no limit on the concurrent connections of an IP
NeverAtLimit(concurrent) == FALSE

\* check_connection: concurrent >= self.config.max_concurrent_per_ip
at_concurrent_limit(concurrent) == concurrent >= max_concurrent_per_ip

\* no time at all between now and the cutoff of the rate window
NoTimeAgo(now) == now

\* check_connection: now - Duration::from_secs(1)
one_sec_ago(now) == now - L4RateWindowSecs * L4TicksPerSec

\* L4Tracker::check_connection: the decision and the tracker state after it.
\* entry(ip).or_insert_with creates the per-IP state on first sight.
CheckConnection(states, ip, now) ==
    LET st0 == IF states[ip].present THEN states[ip]
               ELSE [present |-> TRUE, concurrent |-> 0, recent_connects |-> <<>>]
        kept == SelectSeq(st0.recent_connects, LAMBDA t : t > one_sec_ago(now))
        rate == Len(kept)
    IN  IF at_concurrent_limit(st0.concurrent)
        THEN [action |-> "Drop", states |-> [states EXCEPT ![ip] = st0]]
        ELSE IF rate >= connection_rate_per_ip_per_sec
             THEN [action |-> IF tarpit_enabled THEN "Tarpit" ELSE "Drop",
                   states |-> [states EXCEPT ![ip] =
                                 [st0 EXCEPT !.recent_connects = kept]]]
             ELSE [action |-> "Allow",
                   states |-> [states EXCEPT ![ip] =
                                 [st0 EXCEPT !.recent_connects = Append(kept, now)]]]

\* L4Tracker::register_connection
RegisterConnection(states, ip) ==
    IF states[ip].present
    THEN [states EXCEPT ![ip].concurrent = @ + 1]
    ELSE states

\* L4Tracker::unregister_connection: compare-exchange loop with a zero floor
UnregisterConnection(states, ip) ==
    IF states[ip].present /\ states[ip].concurrent > 0
    THEN [states EXCEPT ![ip].concurrent = @ - 1]
    ELSE states

\* L4Tracker::cleanup: retain entries with live connections or recent activity
L4CleanupStates(states, now) ==
    [ip \in L4Ips |->
        IF ~states[ip].present THEN states[ip]
        ELSE IF states[ip].concurrent > 0 THEN states[ip]
        ELSE IF \E i \in 1..Len(states[ip].recent_connects) :
                    states[ip].recent_connects[i] > now - L4IdleSecs * L4TicksPerSec
             THEN states[ip]
             ELSE NoState]

FreeConn == {c \in ConnIds : conn_tasks[c].st = "unused"}

\* One iteration of the HTTPS accept loop for a peer `ip`: the L4 check, then
\* register + spawn on Allow, or drop / tarpit the stream.
Accept(ip) ==
    /\ FreeConn # {}
    /\ LET c == CHOOSE x \in FreeConn : \A y \in FreeConn : x <= y
           r == CheckConnection(ip_states, ip, l4_now)
       IN  \/ /\ r.action = "Allow"
              /\ ip_states' = RegisterConnection(r.states, ip)
              /\ l4_totals' = BumpTotal(l4_totals, "allowed")
              /\ conn_tasks' = [conn_tasks EXCEPT ![c] = [st |-> "running", ip |-> ip]]
           \/ /\ r.action = "Drop"
              /\ ip_states' = r.states
              /\ l4_totals' = BumpTotal(l4_totals, "dropped")
              /\ conn_tasks' = [conn_tasks EXCEPT ![c] = [st |-> "dropped", ip |-> ip]]
           \/ /\ r.action = "Tarpit"
              /\ ip_states' = r.states
              /\ l4_totals' = BumpTotal(l4_totals, "tarpitted")
              /\ conn_tasks' = [conn_tasks EXCEPT ![c] = [st |-> "tarpitted", ip |-> ip]]
    /\ UNCHANGED l4_now
    /\ UNCHANGED NotL4

\* The spawned task: handle_tls_connection returns (Ok or Err), then the task
\* unregisters the connection.
ConnFinish(c) ==
    /\ conn_tasks[c].st = "running"
    /\ ip_states' = UnregisterConnection(ip_states, conn_tasks[c].ip)
    /\ conn_tasks' = [conn_tasks EXCEPT ![c].st = "ended"]
    /\ UNCHANGED <<l4_now, l4_totals>>
    /\ UNCHANGED NotL4

\* The spawned task unwinds inside handle_tls_connection(...).await (a panic in
\* the handler, or the task being dropped at an await point): the statements
\* after the await, the unregister among them, are never executed.
ConnPanic(c) ==
    /\ conn_tasks[c].st = "running"
    /\ conn_tasks' = [conn_tasks EXCEPT ![c].st = "panicked"]
    /\ UNCHANGED <<l4_now, ip_states, l4_totals>>
    /\ UNCHANGED NotL4

\* cleanup_loop tick: l4.cleanup()
L4Cleanup ==
    /\ ip_states' = L4CleanupStates(ip_states, l4_now)
    /\ UNCHANGED <<l4_now, l4_totals, conn_tasks>>
    /\ UNCHANGED NotL4

L4Tick ==
    /\ l4_now + L4TickSecs * L4TicksPerSec <= MaxL4Now * L4TicksPerSec
    /\ l4_now' = l4_now + L4TickSecs * L4TicksPerSec
    /\ UNCHANGED <<ip_states, l4_totals, conn_tasks>>
    /\ UNCHANGED NotL4

L4Next ==
    \/ \E ip \in L4Ips : Accept(ip)
    \/ \E c \in ConnIds : ConnFinish(c)
    \/ \E c \in ConnIds : ConnPanic(c)
    \/ L4Cleanup
    \/ L4Tick


\* Number of live connection-handling tasks of an IP
RunningTasks(ip) ==
    Cardinality({c \in ConnIds : conn_tasks[c].st = "running" /\ conn_tasks[c].ip = ip})

\* C1: every concurrent-connection slot acquired for an accepted connection
\* is released when its task ends, also when the task panics or is aborted:
\* the per-IP counter never holds more slots than the IP has live tasks.
C1_SlotReleasedWhenTaskEnds ==
    \A ip \in L4Ips : ip_states[ip].concurrent <= RunningTasks(ip)

(***************************************************************************)
(* register_connection / unregister_connection called by any number of     *)
(* threads, unregister_connection at the granularity of its atomic         *)
(* operations (src/src/protection/l4_tracker.rs:94-114).  The thread holds  *)
(* the map entry for the whole call, so the entry is not removed under it.  *)
(***************************************************************************)
UnregThreads == {1, 2}
\* registers are made while the counter is below this bound
MaxConcurrent == 3

IdleCaller == [pc |-> "idle", ip |-> "none", current |-> 0, last |-> "none"]

ThreadsInit ==
    /\ l4_unreg = [t \in UnregThreads |-> IdleCaller]

\* Mutation of AtFloor: the loop never stops at zero
NoFloor(current) == FALSE

\* unregister_connection: if current == 0 { break; }
AtFloor(current) == current = 0

\* a plain store in the place of the compare-exchange
BlindStore(value, current, new) == [ok |-> TRUE, value |-> new]

\* Atomic*::compare_exchange(current, new): the value after it, and whether
\* it succeeded
compare_exchange(value, current, new) ==
    IF value = current THEN [ok |-> TRUE, value |-> new]
    ELSE [ok |-> FALSE, value |-> value]

\* check_connection called for the first connection of ip: creates the
\* per-IP state
CheckCall(ip) ==
    /\ ~ip_states[ip].present
    /\ LET r == CheckConnection(ip_states, ip, l4_now)
       IN  /\ ip_states' = r.states
           /\ l4_totals' = BumpTotal(l4_totals,
                  IF r.action = "Allow" THEN "allowed"
                  ELSE IF r.action = "Drop" THEN "dropped" ELSE "tarpitted")
    /\ UNCHANGED <<l4_now, conn_tasks, l4_unreg>>
    /\ UNCHANGED BesidesL4

\* register_connection called for ip: fetch_add(1)
RegisterCall(ip) ==
    /\ ip_states[ip].concurrent < MaxConcurrent
    /\ ip_states' = RegisterConnection(ip_states, ip)
    /\ UNCHANGED <<l4_now, l4_totals, conn_tasks, l4_unreg>>
    /\ UNCHANGED BesidesL4

\* unregister_connection, one loop iteration up to the load: ip_states.get,
\* concurrent.load, and the break at zero
UnregisterLoad(t, ip) ==
    /\ l4_unreg[t].pc = "idle"
    /\ LET current == ip_states[ip].concurrent
       IN  l4_unreg' = [l4_unreg EXCEPT ![t] =
               IF ~ip_states[ip].present
               THEN [pc |-> "idle", ip |-> ip, current |-> 0, last |-> "absent"]
               ELSE IF AtFloor(current)
               THEN [pc |-> "idle", ip |-> ip, current |-> current, last |-> "floor"]
               ELSE [pc |-> "loaded", ip |-> ip, current |-> current, last |-> @.last]]
    /\ UNCHANGED <<l4_now, ip_states, l4_totals, conn_tasks>>
    /\ UNCHANGED BesidesL4

\* unregister_connection, the rest of the iteration: compare_exchange(current,
\* current - 1); on failure the loop loads again
UnregisterCas(t) ==
    /\ l4_unreg[t].pc = "loaded"
    /\ LET ip == l4_unreg[t].ip
           r  == compare_exchange(ip_states[ip].concurrent, l4_unreg[t].current,
                                  l4_unreg[t].current - 1)
           reloaded == r.value
       IN  /\ ip_states' = [ip_states EXCEPT ![ip].concurrent = r.value]
           /\ l4_unreg' = [l4_unreg EXCEPT ![t] =
                  IF r.ok
                  THEN [pc |-> "idle", ip |-> ip, current |-> @.current,
                        last |-> "decremented"]
                  ELSE IF AtFloor(reloaded)
                  THEN [pc |-> "idle", ip |-> ip, current |-> reloaded,
                        last |-> "floor after retry"]
                  ELSE [pc |-> "loaded", ip |-> ip, current |-> reloaded,
                        last |-> "retried"]]
    /\ UNCHANGED <<l4_now, l4_totals, conn_tasks>>
    /\ UNCHANGED BesidesL4

L4CallsNext ==
    \/ \E ip \in L4Ips : CheckCall(ip)
    \/ \E ip \in L4Ips : RegisterCall(ip)
    \/ \E t \in UnregThreads, ip \in L4Ips : UnregisterLoad(t, ip)
    \/ \E t \in UnregThreads : UnregisterCas(t)

\* C11: under any interleaving of register_connection and
\* unregister_connection calls for an IP, more unregisters than registers
\* included, the per-IP concurrent counter never goes below zero and never
\* wraps around.
C11_CounterNeverBelowZero ==
    \A ip \in L4Ips : ip_states[ip].concurrent >= 0

\* Two unregisters raced for the last slot of an IP: one decremented it, the
\* other lost the compare-exchange and stopped at the floor
C11_Witness ==
    /\ l4_unreg[1].last = "decremented"
    /\ l4_unreg[2].last = "floor after retry"
    /\ l4_unreg[1].ip = l4_unreg[2].ip
    /\ l4_unreg[1].pc = "idle" /\ l4_unreg[2].pc = "idle"
    /\ ip_states[l4_unreg[1].ip].concurrent = 0

(***************************************************************************)
(* Escalation controller  (src/src/protection/escalation.rs), driven by    *)
(* the reporter's 5-second interval (src/src/analytics/reporter.rs) and    *)
(* by the admin API's manual override (src/src/admin_api/routes.rs)        *)
(***************************************************************************)
\* bounds of the escalation model
MaxEscNow == 60            \* last clock value, seconds
MaxChangeCount == 2        \* cap of the observer's change counters
MaxStreak == 3             \* cap of the observer's counts of consecutive evaluations

\* program constants
DEESCALATION_CONSECUTIVE_CHECKS == 3
ESCALATION_COOLDOWN_SECS == 10
escalation_interval_secs == 5
U8Mod == 256               \* AtomicU8 wraps at 2^8

\* EscalationConfig as configured for the model: the default thresholds, and a
\* de-escalation cooldown of 20 s so that it elapses within the modelled time
deescalation_cooldown_secs == 20
l0_to_l1_rps == 5000
l1_to_l2_rps == 15000
l2_to_l3_rps == 50000
l3_to_l4_rps == 100000
\* block_ratio_threshold = 0.3, kept as the fraction 3/10
block_ratio_num == 3
block_ratio_den == 10

\* settings.escalation.sustained_checks_required values the engine is built with
SustainedChoices == {1, 3}

Levels == 0..4

\* (rps, blocked_per_min, total_per_min) samples the reporter may feed in
EvalInputs ==
    { [rps |-> 0,      blocked |-> 0,   total |-> 1000],   \* quiet
      [rps |-> 6000,   blocked |-> 0,   total |-> 1000],   \* busy, nothing blocked
      [rps |-> 200000, blocked |-> 600, total |-> 1000] }  \* above every threshold

NoTime == -1

\* EscalationEngine::with_config at time 0; the interval's first tick is immediate
EscInit ==
    /\ esc_now = 0
    /\ eval_due = TRUE
    /\ current_level = 0
    /\ last_escalation = 0
    /\ last_deescalation = 0
    /\ escalation_counter = 0
    /\ deescalation_counter = 0
    /\ sustained_checks_required \in SustainedChoices
    /\ esc_log = [op |-> "new", from |-> 0, to |-> 0,
                  last_change_at |-> NoTime,
                  last_esc_at |-> NoTime, last_deesc_at |-> NoTime,
                  n_esc |-> 0, n_deesc |-> 0,
                  up_streak |-> 0, down_streak |-> 0]

\* EscalationEngine::should_escalate
should_escalate(current, rps, blocked_per_min) ==
    CASE current = 0 -> rps > l0_to_l1_rps \/ blocked_per_min > 50
      [] current = 1 -> rps > l1_to_l2_rps \/ blocked_per_min > 200
      [] current = 2 -> rps > l2_to_l3_rps \/ blocked_per_min > 500
      [] current = 3 -> rps > l3_to_l4_rps
      [] OTHER -> FALSE

\* EscalationEngine::should_deescalate (rps < threshold * 0.5 as 2*rps < threshold)
should_deescalate(current, rps, blocked_per_min) ==
    IF current = 0 THEN FALSE
    ELSE LET threshold == CASE current = 1 -> l0_to_l1_rps
                            [] current = 2 -> l1_to_l2_rps
                            [] current = 3 -> l2_to_l3_rps
                            [] OTHER -> l3_to_l4_rps
             block_threshold == CASE current = 1 -> 25
                                  [] current = 2 -> 100
                                  [] OTHER -> 250
         IN  2 * rps < threshold /\ blocked_per_min < block_threshold

\* The engine's fields as a record, for the operators below
EscState ==
    [level |-> current_level, last_esc |-> last_escalation,
     last_deesc |-> last_deescalation, esc_ctr |-> escalation_counter,
     deesc_ctr |-> deescalation_counter, sustained |-> sustained_checks_required]

\* try_escalate storing current + 2
EscalatedByTwo(current) == Min(current + 2, 4)

\* try_deescalate waiting only for the escalation cooldown
ShortDeescalationCooldown == ESCALATION_COOLDOWN_SECS

\* The level try_escalate / try_deescalate ask the compare-exchange to store
EscalatedLevel(current) == current + 1
DeescalatedLevel(current) == current - 1

\* try_escalate waiting half the cooldown
HalvedEscalationCooldown == ESCALATION_COOLDOWN_SECS \div 2

\* The cooldowns try_escalate / try_deescalate enforce
EscalationCooldown == ESCALATION_COOLDOWN_SECS
DeescalationCooldown == deescalation_cooldown_secs

\* EscalationEngine::try_escalate(current) on state e at time now
try_escalate(e, current, now) ==
    IF current >= 4 THEN e
    ELSE IF now - e.last_esc < EscalationCooldown THEN e
    ELSE LET r == compare_exchange(e.level, current, EscalatedLevel(current))
         IN  IF r.ok
             THEN [e EXCEPT !.level = r.value, !.last_esc = now, !.deesc_ctr = 0]
             ELSE e

\* EscalationEngine::try_deescalate(current) on state e at time now
try_deescalate(e, current, now) ==
    IF current = 0 THEN e
    ELSE IF now - e.last_deesc < DeescalationCooldown THEN e
    ELSE LET r == compare_exchange(e.level, current, DeescalatedLevel(current))
         IN  IF r.ok
             THEN [e EXCEPT !.level = r.value, !.last_deesc = now, !.deesc_ctr = 0]
             ELSE e

\* the guard taking no sample for a low ratio
RatioNeverLow(in) == FALSE

\* evaluate: block_ratio < block_ratio_threshold, block_ratio being
\* blocked / total, or 0.0 when total is 0
low_block_ratio(in) ==
    IF in.total > 0
    THEN in.blocked * block_ratio_den < block_ratio_num * in.total
    ELSE TRUE

\* one check being enough to escalate
FirstCheckSuffices(counter, required) == counter >= 1

\* evaluate: counter >= self.sustained_checks_required
sustained_checks_reached(counter, required) == counter >= required

\* EscalationEngine::evaluate after its first statement has loaded `current`
evaluate_from(e, current, in, now) ==
        IF should_escalate(current, in.rps, in.blocked)
        THEN IF low_block_ratio(in) /\ current = 0
             THEN [e EXCEPT !.esc_ctr = 0]
             ELSE LET counter == (e.esc_ctr + 1) % U8Mod
                  IN  IF sustained_checks_reached(counter, e.sustained)
                      THEN [try_escalate([e EXCEPT !.esc_ctr = counter], current, now)
                              EXCEPT !.esc_ctr = 0]
                      ELSE [e EXCEPT !.esc_ctr = counter]
        ELSE LET e1 == [e EXCEPT !.esc_ctr = 0]
             IN  IF should_deescalate(current, in.rps, in.blocked)
                 THEN LET counter == (e1.deesc_ctr + 1) % U8Mod
                          e2 == [e1 EXCEPT !.deesc_ctr = counter]
                      IN  IF counter >= DEESCALATION_CONSECUTIVE_CHECKS
                          THEN try_deescalate(e2, current, now)
                          ELSE e2
                 ELSE [e1 EXCEPT !.deesc_ctr = 0]

\* EscalationEngine::evaluate(rps, blocked_per_min, total_per_min, settings):
\* let current = self.current_level.load(), and the rest
evaluate(e, in, now) == evaluate_from(e, e.level, in, now)

\* EscalationEngine::set_level(level): swap, counters reset when the level changed
set_level(e, level) ==
    IF e.level # level
    THEN [e EXCEPT !.level = level, !.esc_ctr = 0, !.deesc_ctr = 0]
    ELSE e

\* The upgrade condition of an evaluation at `level`: a threshold of the level
\* is exceeded, and at L0 the block ratio is not low
UpgradeCondition(level, in) ==
    /\ should_escalate(level, in.rps, in.blocked)
    /\ ~(level = 0 /\ low_block_ratio(in))

\* The de-escalation condition of an evaluation at `level`
DowngradeCondition(level, in) == should_deescalate(level, in.rps, in.blocked)

\* Observer: the numbers of most recent consecutive evaluations in which the
\* upgrade / the de-escalation condition held, after one more evaluation at
\* `level` with sample `in`
StreaksAfter(log, level, in) ==
    [up |-> IF UpgradeCondition(level, in)
            THEN Min(log.up_streak + 1, MaxStreak) ELSE 0,
     down |-> IF DowngradeCondition(level, in)
              THEN Min(log.down_streak + 1, MaxStreak) ELSE 0]

\* Observer: the streaks as they are, for operations that evaluate nothing
SameStreaks(log) == [up |-> log.up_streak, down |-> log.down_streak]

\* Observer: what the operation `op` did to the level at time now
EscLogAfter(log, op, from, to, now, streaks) ==
    LET changed == to # from
        auto_up == op = "evaluate" /\ to > from
        auto_down == op = "evaluate" /\ to < from
    IN  [op |-> op, from |-> from, to |-> to,
         last_change_at |-> IF changed THEN now ELSE log.last_change_at,
         last_esc_at |-> IF auto_up THEN now ELSE log.last_esc_at,
         last_deesc_at |-> IF auto_down THEN now ELSE log.last_deesc_at,
         n_esc |-> IF auto_up THEN Min(log.n_esc + 1, MaxChangeCount) ELSE log.n_esc,
         n_deesc |-> IF auto_down THEN Min(log.n_deesc + 1, MaxChangeCount)
                     ELSE log.n_deesc,
         up_streak |-> streaks.up, down_streak |-> streaks.down]

\* Store an engine state record back into the fields
EscFieldsStore(e) ==
    /\ current_level' = e.level
    /\ last_escalation' = e.last_esc
    /\ last_deescalation' = e.last_deesc
    /\ escalation_counter' = e.esc_ctr
    /\ deescalation_counter' = e.deesc_ctr

\* The same, and the observer's record of the operation
EscStore(e, op, streaks) ==
    /\ EscFieldsStore(e)
    /\ esc_log' = EscLogAfter(esc_log, op, current_level, e.level, esc_now, streaks)

\* Reporter::evaluate_escalation: one firing of the 5-second escalation interval
Evaluate(in) ==
    /\ eval_due
    /\ eval_due' = FALSE
    /\ EscStore(evaluate(EscState, in, esc_now), "evaluate",
                StreaksAfter(esc_log, current_level, in))
    /\ UNCHANGED <<esc_now, sustained_checks_required>>
    /\ UNCHANGED NotEsc

\* admin API POST /api/fortress/level, and main's default level:
\* EscalationEngine::set_level
SetLevel(level) ==
    /\ EscStore(set_level(EscState, level), "set_level", SameStreaks(esc_log))
    /\ UNCHANGED <<esc_now, eval_due, sustained_checks_required>>
    /\ UNCHANGED NotEsc

\* The escalation interval elapses
EscTick ==
    /\ esc_now + escalation_interval_secs <= MaxEscNow
    /\ esc_now' = esc_now + escalation_interval_secs
    /\ eval_due' = TRUE
    /\ UNCHANGED <<current_level, last_escalation, last_deescalation,
                   escalation_counter, deescalation_counter,
                   sustained_checks_required, esc_log>>
    /\ UNCHANGED NotEsc

EscNext ==
    \/ \E in \in EvalInputs : Evaluate(in)
    \/ \E level \in Levels : SetLevel(level)
    \/ EscTick

\* C3 as stated: every change of the protection level, whichever operation
\* makes it, moves exactly one level up or down.
C3_EveryChangeIsOneLevel ==
    [][current_level' # current_level =>
          (current_level' = current_level + 1 \/ current_level' = current_level - 1)]_vars

\* C3 amended: every change of the protection level made by the automatic
\* controller (evaluate, through try_escalate / try_deescalate) moves exactly
\* one level; the manual set_level may set any level.
C3_AutomaticChangeIsOneLevel ==
    [][(esc_log'.op = "evaluate" /\ current_level' # current_level) =>
          (current_level' = current_level + 1 \/ current_level' = current_level - 1)]_vars

\* An evaluation has just stepped the level down by one
C3_Witness ==
    /\ esc_log.op = "evaluate"
    /\ esc_log.from \in 1..4
    /\ esc_log.to = esc_log.from - 1
    /\ current_level = esc_log.to

\* C4 as stated: any two successive changes of the level are at least
\* max(10 s, deescalation_cooldown_secs) apart.
C4_SuccessiveChangesFullCooldown ==
    [][(current_level' # current_level /\ esc_log.last_change_at # NoTime) =>
          esc_now - esc_log.last_change_at
              >= Max(ESCALATION_COOLDOWN_SECS, deescalation_cooldown_secs)]_vars

\* C4 amended: two successive automatic escalations are at least 10 s apart,
\* and two successive automatic de-escalations are at least
\* deescalation_cooldown_secs apart.
C4_SameDirectionCooldown ==
    [][/\ (esc_log'.op = "evaluate" /\ current_level' > current_level
              /\ esc_log.last_esc_at # NoTime)
           => esc_now - esc_log.last_esc_at >= ESCALATION_COOLDOWN_SECS
       /\ (esc_log'.op = "evaluate" /\ current_level' < current_level
              /\ esc_log.last_deesc_at # NoTime)
           => esc_now - esc_log.last_deesc_at >= deescalation_cooldown_secs]_vars

\* Two automatic escalations and two automatic de-escalations have happened
C4_Witness ==
    /\ esc_log.n_esc >= 2
    /\ esc_log.n_deesc >= 2

\* C13: the level is lowered automatically only after the de-escalation
\* condition has held in 3 consecutive evaluations, and an evaluation in which
\* the condition does not hold restarts the count.
C13_LoweredAfterThreeConsecutive ==
    /\ (esc_log.op = "evaluate" /\ esc_log.to < esc_log.from)
           => esc_log.down_streak >= DEESCALATION_CONSECUTIVE_CHECKS
    /\ (esc_log.op = "evaluate" /\ esc_log.down_streak = 0)
           => deescalation_counter = 0

\* C14: the level is raised automatically only after the upgrade condition
\* has held in sustained_checks_required consecutive evaluations, and an
\* evaluation in which the condition fails leaves the sustain counter at zero.
C14_RaisedAfterSustainedChecks ==
    /\ (esc_log.op = "evaluate" /\ esc_log.to > esc_log.from)
           => esc_log.up_streak >= sustained_checks_required
    /\ (esc_log.op = "evaluate" /\ esc_log.up_streak = 0)
           => escalation_counter = 0

\* An evaluation has just raised the level of an engine that requires three
\* sustained checks, the third consecutive one in which the condition held
C14_Witness ==
    /\ sustained_checks_required = 3
    /\ esc_log.op = "evaluate"
    /\ esc_log.to = esc_log.from + 1
    /\ current_level = esc_log.to
    /\ esc_log.up_streak = 3
    /\ escalation_counter = 0

\* C16: after any call of the manual override set_level(L), the level is L
\* and both the sustain counter and the de-escalation counter are zero.
C16_SetLevelResetsCounters ==
    [][\A level \in Levels :
          SetLevel(level) =>
              /\ current_level' = level
              /\ escalation_counter' = 0
              /\ deescalation_counter' = 0]_vars

(***************************************************************************)
(* EscalationEngine::evaluate called by several threads at once            *)
(* (src/src/protection/escalation.rs:86-135, 183-245): a call loads the     *)
(* level, and goes on later with the level it loaded; the counters and the  *)
(* compare-exchange of try_escalate / try_deescalate, which runs under the  *)
(* mutex of the cooldown timestamp, are the second step.                    *)
(***************************************************************************)
EvalThreads == {1, 2}
\* calls are started while the de-escalation counter is below this bound
MaxDeescCounter == 3
\* cap of the observer's count of level changes during a call
MaxSteps == 2

\* the clock of the concurrent calls advances in steps of this many seconds,
\* up to MaxCallsNow
CallsTickSecs == 5
MaxCallsNow == 40

\* (rps, blocked_per_min, total_per_min) samples the callers pass
CallerSamples ==
    { [rps |-> 0,      blocked |-> 0,   total |-> 1000],   \* quiet
      [rps |-> 200000, blocked |-> 100, total |-> 1000],   \* surge, few blocked
      [rps |-> 200000, blocked |-> 600, total |-> 1000] }  \* above every threshold

\* A thread outside evaluate.  current: the level its call loaded; observers:
\* steps, the level changes made since the load by calls that had loaded the
\* same level; foreign, whether a call that had loaded another level changed
\* the level since the load; delta, what the call did to the level; lost,
\* whether its compare-exchange failed; skipped, whether it returned at the
\* low block ratio of L0
IdleEval ==
    [pc |-> "idle", in |-> [rps |-> 0, blocked |-> 0, total |-> 1000],
     current |-> 0, steps |-> 0, foreign |-> FALSE, delta |-> 0, lost |-> FALSE,
     skipped |-> FALSE]

EscCallsInit ==
    /\ esc_calls = [t \in EvalThreads |-> IdleEval]

\* evaluate, its first statement: current_level.load
EvalLoad(t, in) ==
    /\ esc_calls[t].pc = "idle"
    /\ deescalation_counter < MaxDeescCounter
    /\ esc_calls' = [esc_calls EXCEPT ![t] =
           [pc |-> "loaded", in |-> in, current |-> current_level,
            steps |-> 0, foreign |-> FALSE, delta |-> 0, lost |-> FALSE,
            skipped |-> FALSE]]
    /\ UNCHANGED escvars
    /\ UNCHANGED BesidesEsc

\* evaluate, the rest of the call of thread t
EvalFinish(t) ==
    /\ esc_calls[t].pc = "loaded"
    /\ LET c == esc_calls[t]
           e == evaluate_from(EscState, c.current, c.in, esc_now)
           unraced == evaluate_from([EscState EXCEPT !.level = c.current],
                                    c.current, c.in, esc_now)
           changed == e.level # current_level
       IN  /\ EscFieldsStore(e)
           /\ esc_calls' = [u \in EvalThreads |->
                  IF u = t
                  THEN [c EXCEPT !.pc = "idle", !.in = IdleEval.in,
                                 !.steps = IF changed THEN Min(@ + 1, MaxSteps) ELSE @,
                                 !.delta = e.level - current_level,
                                 !.lost = ~changed /\ unraced.level # c.current,
                                 !.skipped =
                                     /\ should_escalate(c.current, c.in.rps, c.in.blocked)
                                     /\ low_block_ratio(c.in)
                                     /\ c.current = 0]
                  ELSE IF changed /\ esc_calls[u].pc = "loaded"
                  THEN IF esc_calls[u].current = c.current
                       THEN [esc_calls[u] EXCEPT !.steps = Min(@ + 1, MaxSteps)]
                       ELSE [esc_calls[u] EXCEPT !.foreign = TRUE]
                  ELSE esc_calls[u]]
    /\ UNCHANGED <<esc_now, eval_due, sustained_checks_required, esc_log>>
    /\ UNCHANGED BesidesEsc

\* Time passes while calls are in flight or between them
EscCallsTick ==
    /\ esc_now + CallsTickSecs <= MaxCallsNow
    /\ esc_now' = esc_now + CallsTickSecs
    /\ UNCHANGED <<eval_due, current_level, last_escalation, last_deescalation,
                   escalation_counter, deescalation_counter,
                   sustained_checks_required, esc_log>>
    /\ UNCHANGED NotEsc

EscCallsNext ==
    \/ \E t \in EvalThreads, in \in CallerSamples : EvalLoad(t, in)
    \/ \E t \in EvalThreads : EvalFinish(t)
    \/ EscCallsTick

\* C15: evaluate calls that run concurrently after loading the same level do
\* not double-step: as long as every change of the level since a call's load
\* was made by calls that had loaded the same level, there is at most one
\* such change.
C15_NoDoubleStep ==
    \A t \in EvalThreads :
        ~esc_calls[t].foreign => esc_calls[t].steps <= 1

\* Two calls loaded the same level and ran concurrently: the first changed
\* the level, the second lost the compare-exchange
C15_Witness ==
    /\ esc_calls[1].pc = "idle" /\ esc_calls[2].pc = "idle"
    /\ esc_calls[1].current = esc_calls[2].current
    /\ esc_calls[1].delta # 0
    /\ esc_calls[2].lost
    /\ esc_calls[2].steps = 1
    /\ ~esc_calls[2].foreign

\* The block ratio blocked / total of a sample is below block_ratio_threshold
\* (a sample of no requests has nothing blocked)
BlockRatioBelowThreshold(in) ==
    \/ in.total = 0
    \/ in.blocked * block_ratio_den < block_ratio_num * in.total

\* C17: an evaluate call that finds the level at L0 and is given a sample
\* whose block ratio is below block_ratio_threshold does not raise the level,
\* however high the RPS and however many evaluations there are.
C17_NoRaiseAtL0WithLowRatio ==
    [][\A t \in EvalThreads :
          (/\ esc_calls[t].pc = "loaded" /\ esc_calls'[t].pc = "idle"
           /\ esc_calls[t].current = 0
           /\ BlockRatioBelowThreshold(esc_calls[t].in))
          => current_level' <= current_level]_vars

\* Both threads have evaluated at L0 a sample over the RPS threshold with a
\* low block ratio, one check being enough and the cooldown being over, and
\* the level is still L0
C17_Witness ==
    /\ sustained_checks_required = 1
    /\ esc_now >= ESCALATION_COOLDOWN_SECS
    /\ current_level = 0
    /\ \A t \in EvalThreads :
           /\ esc_calls[t].pc = "idle"
           /\ esc_calls[t].current = 0
           /\ esc_calls[t].skipped
           /\ esc_calls[t].delta = 0

\* C18: two automatic escalations are never less than 10 s apart, and two
\* automatic de-escalations never less than deescalation_cooldown_secs apart:
\* a call raises the level only 10 s or more after the instant in
\* last_escalation and records its own instant there, a call lowers it only
\* deescalation_cooldown_secs or more after the instant in last_deescalation
\* and records its own instant there, and nothing else writes the two.
C18_CooldownPerDirection ==
    [][/\ current_level' > current_level =>
              /\ esc_now - last_escalation >= ESCALATION_COOLDOWN_SECS
              /\ last_escalation' = esc_now
       /\ current_level' < current_level =>
              /\ esc_now - last_deescalation >= deescalation_cooldown_secs
              /\ last_deescalation' = esc_now
       /\ last_escalation' # last_escalation => current_level' > current_level
       /\ last_deescalation' # last_deescalation => current_level' < current_level
      ]_vars

\* Concurrent calls have raised the level twice, exactly 10 s apart, the
\* second time while another call that had loaded the same level was in flight
C18_Witness ==
    /\ current_level = 2
    /\ last_escalation = 2 * ESCALATION_COOLDOWN_SECS
    /\ last_deescalation = 0
    /\ esc_now = last_escalation
    /\ \E t \in EvalThreads :
           /\ esc_calls[t].pc = "loaded"
           /\ esc_calls[t].current = 1
           /\ esc_calls[t].steps = 1

(***************************************************************************)
(* Auto-ban manager  (src/src/protection/auto_ban.rs)                      *)
(***************************************************************************)
BanIps == {"203.0.113.7"}

\* bounds of the auto-ban model
MaxBanNow == 800           \* last clock value, seconds
MaxHistoryLen == 28        \* longest block history recorded for an IP
BanTickSecs == 400         \* the clock advances in steps of this many seconds

\* AutoBanConfig: the defaults
auto_ban_enabled == TRUE
ban_threshold_5m == 10
ban_threshold_15m == 25
ban_threshold_1h == 50
repeat_ban_threshold == 3

\* program constants of record_block / cleanup
Window5mSecs == 300
Window15mSecs == 900
Window1hSecs == 3600
Ban5mSecs == 300
Ban15mSecs == 1800
Ban1hSecs == 7200
BanRepeatSecs == 86400
HistoryStaleSecs == 7200

NoHistory == [present |-> FALSE, blocks |-> <<>>, ban_count |-> 0]
NoBan == [present |-> FALSE, banned_at |-> 0, duration |-> 0, reason |-> "none",
          block_count |-> 0]
NoSubnetCount == -1        \* the subnet has no entry in subnet_bans

\* ip_to_subnet_str: the /24 of an IPv4 address
ip_to_subnet_str(ip) ==
    CASE ip = "203.0.113.7" -> "203.0.113.0/24"
      [] OTHER -> "0.0.0.0/24"

BanSubnets == {ip_to_subnet_str(ip) : ip \in BanIps}

\* AutoBanManager::new
BanInit ==
    /\ ban_now = 0
    /\ ban_history = [ip \in BanIps |-> NoHistory]
    /\ active_bans = [ip \in BanIps |-> NoBan]
    /\ subnet_bans = [sn \in BanSubnets |-> NoSubnetCount]
    /\ ban_last = [op |-> "new", ip |-> "none", ret |-> FALSE]

\* IpBlockHistory::cleanup: pop from the front while older than one hour
RECURSIVE HistoryCleanup(_, _)
HistoryCleanup(blocks, now) ==
    IF blocks # <<>> /\ Head(blocks) < now - Window1hSecs
    THEN HistoryCleanup(Tail(blocks), now)
    ELSE blocks

\* IpBlockHistory::count_in_window
count_in_window(blocks, now, window_secs) ==
    Len(SelectSeq(blocks, LAMBDA t : t >= now - window_secs))

\* AutoBanManager::is_banned, as a predicate (Some(reason) / None)
is_banned(bans, ip, now) ==
    /\ auto_ban_enabled
    /\ bans[ip].present
    /\ now - bans[ip].banned_at < bans[ip].duration

\* record_block never consulting is_banned
NeverBanned(bans, ip, now) == FALSE

\* record_block: "don't record blocks for already-banned IPs"
AlreadyBanned(bans, ip, now) == is_banned(bans, ip, now)

\* record_block: the ban ladder, most aggressive rule first; duration 0 = no ban
BanLadder(ban_count, blocks_1h, blocks_15m, blocks_5m) ==
    IF ban_count >= repeat_ban_threshold
    THEN [duration |-> BanRepeatSecs, reason |-> "repeat_offender_ban"]
    ELSE IF blocks_1h >= ban_threshold_1h
    THEN [duration |-> Ban1hSecs, reason |-> "1h_threshold"]
    ELSE IF blocks_15m >= ban_threshold_15m
    THEN [duration |-> Ban15mSecs, reason |-> "15m_threshold"]
    ELSE IF blocks_5m >= ban_threshold_5m
    THEN [duration |-> Ban5mSecs, reason |-> "5m_threshold"]
    ELSE [duration |-> 0, reason |-> "none"]

\* AutoBanManager::record_block(ip) at time now on manager state
\* b = [history, bans, subnets]; the result carries the return value.
record_block(b, ip, now) ==
    IF ~auto_ban_enabled THEN [b EXCEPT !.ret = FALSE]
    ELSE IF AlreadyBanned(b.bans, ip, now) THEN [b EXCEPT !.ret = FALSE]
    ELSE
      LET h0 == IF b.history[ip].present THEN b.history[ip]
                ELSE [present |-> TRUE, blocks |-> <<>>, ban_count |-> 0]
          blocks == Append(HistoryCleanup(h0.blocks, now), now)
          blocks_1h == count_in_window(blocks, now, Window1hSecs)
          blocks_15m == count_in_window(blocks, now, Window15mSecs)
          blocks_5m == count_in_window(blocks, now, Window5mSecs)
          ban == BanLadder(h0.ban_count, blocks_1h, blocks_15m, blocks_5m)
          sn == ip_to_subnet_str(ip)
      IN  IF ban.duration > 0
          THEN [history |-> [b.history EXCEPT ![ip] =
                               [h0 EXCEPT !.blocks = blocks, !.ban_count = @ + 1]],
                bans |-> [b.bans EXCEPT ![ip] =
                            [present |-> TRUE, banned_at |-> now,
                             duration |-> ban.duration, reason |-> ban.reason,
                             block_count |-> Max(blocks_5m, Max(blocks_15m, blocks_1h))]],
                subnets |-> [b.subnets EXCEPT ![sn] =
                               IF @ = NoSubnetCount THEN 1 ELSE @ + 1],
                ret |-> TRUE]
          ELSE [b EXCEPT !.history[ip] = [h0 EXCEPT !.blocks = blocks],
                         !.ret = FALSE]

\* u32::saturating_sub(1) on an existing subnet counter
SubnetDecrement(subnets, sn) ==
    IF subnets[sn] = NoSubnetCount THEN subnets
    ELSE [subnets EXCEPT ![sn] = Max(@ - 1, 0)]

\* AutoBanManager::unban(ip)
unban(b, ip) ==
    IF b.bans[ip].present
    THEN [b EXCEPT !.bans[ip] = NoBan,
                   !.subnets = SubnetDecrement(b.subnets, ip_to_subnet_str(ip)),
                   !.ret = TRUE]
    ELSE [b EXCEPT !.ret = FALSE]

\* AutoBanManager::cleanup: the subnet counters after a set of bans expired
RECURSIVE SubnetsAfterExpiry(_, _)
SubnetsAfterExpiry(subnets, expired) ==
    IF expired = {} THEN subnets
    ELSE LET ip == CHOOSE x \in expired : TRUE
         IN  SubnetsAfterExpiry(SubnetDecrement(subnets, ip_to_subnet_str(ip)),
                                expired \ {ip})

\* AutoBanManager::cleanup at time now
ban_cleanup(b, now) ==
    LET expired == {ip \in BanIps : b.bans[ip].present
                        /\ now - b.bans[ip].banned_at >= b.bans[ip].duration}
        subnets1 == SubnetsAfterExpiry(b.subnets, expired)
    IN  [history |-> [ip \in BanIps |->
                        IF b.history[ip].present /\ b.history[ip].blocks # <<>>
                           /\ now - b.history[ip].blocks[Len(b.history[ip].blocks)]
                                  < HistoryStaleSecs
                        THEN b.history[ip] ELSE NoHistory],
         bans |-> [ip \in BanIps |-> IF ip \in expired THEN NoBan ELSE b.bans[ip]],
         subnets |-> [sn \in BanSubnets |->
                        IF subnets1[sn] > 0 THEN subnets1[sn] ELSE NoSubnetCount],
         ret |-> FALSE]

\* The manager's maps as a record
BanState == [history |-> ban_history, bans |-> active_bans, subnets |-> subnet_bans,
             ret |-> FALSE]

BanStore(b, op, ip) ==
    /\ ban_history' = b.history
    /\ active_bans' = b.bans
    /\ subnet_bans' = b.subnets
    /\ ban_last' = [op |-> op, ip |-> ip, ret |-> b.ret]

\* A caller invokes AutoBanManager::record_block(ip)
RecordBlock(ip) ==
    /\ Len(ban_history[ip].blocks) < MaxHistoryLen
    /\ BanStore(record_block(BanState, ip, ban_now), "record_block", ip)
    /\ UNCHANGED ban_now
    /\ UNCHANGED NotBan

\* admin API: AutoBanManager::unban(ip)
Unban(ip) ==
    /\ BanStore(unban(BanState, ip), "unban", ip)
    /\ UNCHANGED ban_now
    /\ UNCHANGED NotBan

\* cleanup_loop tick: auto_ban.cleanup()
BanCleanup ==
    /\ BanStore(ban_cleanup(BanState, ban_now), "cleanup", "none")
    /\ UNCHANGED ban_now
    /\ UNCHANGED NotBan

BanTick ==
    /\ ban_now + BanTickSecs <= MaxBanNow
    /\ ban_now' = ban_now + BanTickSecs
    /\ ban_last' = [op |-> "tick", ip |-> "none", ret |-> FALSE]
    /\ UNCHANGED <<ban_history, active_bans, subnet_bans>>
    /\ UNCHANGED NotBan

BanNext ==
    \/ \E ip \in BanIps : RecordBlock(ip)
    \/ \E ip \in BanIps : Unban(ip)
    \/ BanCleanup
    \/ BanTick

\* Observer: the blocks of a history that lie within the last `secs` seconds
BlocksWithin(h, now, secs) ==
    Cardinality({i \in 1..Len(h.blocks) : now - h.blocks[i] <= secs})

\* Observer: ip holds a ban that has not run out at time now
BanActive(bans, ip, now) ==
    bans[ip].present /\ now < bans[ip].banned_at + bans[ip].duration

\* C5 as stated: for an IP without earlier bans, the record_block that is the
\* 10th within 5 minutes creates a 5-minute ban and returns true; a record_block
\* made while a ban is active returns false and creates no ban.
C5_TenthBlockFiveMinuteBan ==
    [][ban_last'.op = "record_block" =>
        LET ip == ban_last'.ip
        IN  /\ (/\ ~BanActive(active_bans, ip, ban_now)
                /\ ban_history[ip].ban_count = 0
                /\ BlocksWithin(ban_history'[ip], ban_now, Window5mSecs) = ban_threshold_5m)
               => /\ ban_last'.ret
                  /\ active_bans'[ip].present
                  /\ active_bans'[ip].banned_at = ban_now
                  /\ active_bans'[ip].duration = Ban5mSecs
            /\ BanActive(active_bans, ip, ban_now)
               => /\ ~ban_last'.ret
                  /\ active_bans' = active_bans
                  /\ ban_history' = ban_history]_vars

\* C5 amended: the same, provided the record_block is not also the 25th within
\* 15 minutes or the 50th within the hour (those rules are tried first and give
\* a 30-minute or 2-hour ban).
C5_TenthBlockFiveMinuteBanUnlessLongerWindow ==
    [][ban_last'.op = "record_block" =>
        LET ip == ban_last'.ip
        IN  /\ (/\ ~BanActive(active_bans, ip, ban_now)
                /\ ban_history[ip].ban_count = 0
                /\ BlocksWithin(ban_history'[ip], ban_now, Window5mSecs) = ban_threshold_5m
                /\ BlocksWithin(ban_history'[ip], ban_now, Window15mSecs) < ban_threshold_15m
                /\ BlocksWithin(ban_history'[ip], ban_now, Window1hSecs) < ban_threshold_1h)
               => /\ ban_last'.ret
                  /\ active_bans'[ip].present
                  /\ active_bans'[ip].banned_at = ban_now
                  /\ active_bans'[ip].duration = Ban5mSecs
            /\ BanActive(active_bans, ip, ban_now)
               => /\ ~ban_last'.ret
                  /\ active_bans' = active_bans
                  /\ ban_history' = ban_history]_vars

\* The 11th record_block has just been refused: the IP holds its first ban, a
\* 5-minute ban made at this instant by its 10th block within 5 minutes
C5_Witness ==
    /\ ban_last.op = "record_block"
    /\ ~ban_last.ret
    /\ \E ip \in BanIps :
          /\ ban_last.ip = ip
          /\ BanActive(active_bans, ip, ban_now)
          /\ active_bans[ip].duration = Ban5mSecs
          /\ ban_history[ip].ban_count = 1
          /\ BlocksWithin(ban_history[ip], ban_now, Window5mSecs) = ban_threshold_5m

\* The bans held in active_bans for the IPs of a subnet
BansHeldIn(sn) ==
    Cardinality({ip \in BanIps : active_bans[ip].present /\ ip_to_subnet_str(ip) = sn})

\* C12: after any sequence of record_block, unban and cleanup calls, the
\* subnet-ban counter of each /24 equals the number of bans currently held
\* in active-bans for IPs of that subnet (a subnet without a counter counts
\* as zero).
C12_SubnetCounterMatchesBans ==
    \A sn \in BanSubnets :
        (IF subnet_bans[sn] = NoSubnetCount THEN 0 ELSE subnet_bans[sn]) = BansHeldIn(sn)

\* bounds of the auto-ban model over hours
MaxBanHoursNow == 7200     \* last clock value, seconds
BanHourSecs == 3600        \* the clock advances in steps of this many seconds

\* An hour passes
BanHourTick ==
    /\ ban_now + BanHourSecs <= MaxBanHoursNow
    /\ ban_now' = ban_now + BanHourSecs
    /\ ban_last' = [op |-> "tick", ip |-> "none", ret |-> FALSE]
    /\ UNCHANGED <<ban_history, active_bans, subnet_bans>>
    /\ UNCHANGED NotBan

BanHoursNext ==
    \/ \E ip \in BanIps : RecordBlock(ip)
    \/ \E ip \in BanIps : Unban(ip)
    \/ BanCleanup
    \/ BanHourTick

\* C36: cleanup() never discards or resets the ban_count of an IP while that
\* IP still has an active (unexpired) ban.
C36_BanCountKeptWhileBanned ==
    [][BanCleanup =>
          \A ip \in BanIps :
              BanActive(active_bans, ip, ban_now)
                  => /\ ban_history'[ip].present
                     /\ ban_history'[ip].ban_count = ban_history[ip].ban_count]_vars

(***************************************************************************)
(* Block-list cache of the memory store  (src/src/storage/memory.rs);      *)
(* is_blocked runs on request threads, concurrently with block_ip,         *)
(* unblock_ip and cleanup                                                  *)
(***************************************************************************)
BlkIps == {"203.0.113.7", "192.0.2.9"}

\* bounds of the block-list model
MaxBlkNow == 90            \* last clock value, seconds
BlkTickSecs == 30          \* the clock advances in steps of this many seconds

\* durations block_ip is called with (seconds)
BlockDurations == {30, 60}

NoExpiry == -1             \* expires_at = None
NoEntry == [present |-> FALSE, reason |-> "none", expires_at |-> NoExpiry]
NoWrite == [kind |-> "none", at |-> 0, duration |-> 0]
IdleReader == [pc |-> "idle", ip |-> "none", saw |-> NoWrite]

\* MemoryStore::new
BlkInit ==
    /\ blk_now = 0
    /\ blocked_ips = [ip \in BlkIps |-> NoEntry]
    /\ blk_reader = IdleReader
    /\ blk_written = [ip \in BlkIps |-> NoWrite]
    /\ blk_last = [op |-> "new", ip |-> "none", found |-> FALSE, at |-> 0,
                   saw |-> NoWrite]

\* is_blocked: the entry read has an expiry that has passed
EntryExpired(e, now) == e.expires_at # NoExpiry /\ now >= e.expires_at

\* MemoryStore::block_ip on the map
block_ip(m, ip, reason, duration, now) ==
    [m EXCEPT ![ip] = [present |-> TRUE, reason |-> reason,
                       expires_at |-> IF duration = NoExpiry THEN NoExpiry
                                      ELSE now + duration]]

\* MemoryStore::unblock_ip on the map
unblock_ip(m, ip) == [m EXCEPT ![ip] = NoEntry]

\* MemoryStore::cleanup on the map: retain entries without expiry or not yet expired
blocked_cleanup(m, now) ==
    [ip \in BlkIps |->
        IF m[ip].present /\ (m[ip].expires_at = NoExpiry \/ now < m[ip].expires_at)
        THEN m[ip] ELSE NoEntry]

\* is_blocked, first part: blocked_ips.get(ip) and the expiry check.  Absent or
\* unexpired entries make the call return at once; an expired one sends the
\* thread on to the removal, after the map guard is dropped.
IsBlockedRead(ip) ==
    /\ blk_reader.pc = "idle"
    /\ IF blocked_ips[ip].present /\ EntryExpired(blocked_ips[ip], blk_now)
       THEN /\ blk_reader' = [pc |-> "remove", ip |-> ip, saw |-> blk_written[ip]]
            /\ UNCHANGED blk_last
       ELSE /\ blk_last' = [op |-> "is_blocked", ip |-> ip,
                            found |-> blocked_ips[ip].present, at |-> blk_now,
                            saw |-> blk_written[ip]]
            /\ UNCHANGED blk_reader
    /\ UNCHANGED <<blk_now, blocked_ips, blk_written>>
    /\ UNCHANGED NotBlk

\* is_blocked, second part: blocked_ips.remove(ip); return None
IsBlockedRemove ==
    /\ blk_reader.pc = "remove"
    /\ blocked_ips' = [blocked_ips EXCEPT ![blk_reader.ip] = NoEntry]
    /\ blk_last' = [op |-> "is_blocked", ip |-> blk_reader.ip, found |-> FALSE,
                    at |-> blk_now, saw |-> blk_reader.saw]
    /\ blk_reader' = IdleReader
    /\ UNCHANGED <<blk_now, blk_written>>
    /\ UNCHANGED NotBlk

\* Blocklist::add_ip -> MemoryStore::block_ip(ip, reason, duration)
BlockIp(ip, duration) ==
    /\ blocked_ips' = block_ip(blocked_ips, ip, "manual", duration, blk_now)
    /\ blk_written' = [blk_written EXCEPT ![ip] =
                          [kind |-> "block", at |-> blk_now, duration |-> duration]]
    /\ UNCHANGED <<blk_now, blk_reader, blk_last>>
    /\ UNCHANGED NotBlk

\* Blocklist::remove_ip -> MemoryStore::unblock_ip(ip)
UnblockIp(ip) ==
    /\ blocked_ips' = unblock_ip(blocked_ips, ip)
    /\ blk_written' = [blk_written EXCEPT ![ip] =
                          [kind |-> "unblock", at |-> blk_now, duration |-> 0]]
    /\ UNCHANGED <<blk_now, blk_reader, blk_last>>
    /\ UNCHANGED NotBlk

\* cleanup_loop tick: memory.cleanup()
BlkCleanup ==
    /\ blocked_ips' = blocked_cleanup(blocked_ips, blk_now)
    /\ UNCHANGED <<blk_now, blk_reader, blk_written, blk_last>>
    /\ UNCHANGED NotBlk

BlkTick ==
    /\ blk_now + BlkTickSecs <= MaxBlkNow
    /\ blk_now' = blk_now + BlkTickSecs
    /\ UNCHANGED <<blocked_ips, blk_reader, blk_written, blk_last>>
    /\ UNCHANGED NotBlk

BlkNext ==
    \/ \E ip \in BlkIps : IsBlockedRead(ip)
    \/ IsBlockedRemove
    \/ \E ip \in BlkIps : \E d \in BlockDurations \cup {NoExpiry} : BlockIp(ip, d)
    \/ \E ip \in BlkIps : UnblockIp(ip)
    \/ BlkCleanup
    \/ BlkTick

\* C7: an is_blocked(ip) call made after block_ip(ip, reason, Some(D)) returned
\* at t0 (and before any later block_ip / unblock_ip of that ip) returns the
\* entry when it runs at t < t0 + D and None when it runs at t >= t0 + D,
\* whether or not cleanup() ran.
C7_BlockedUntilExpiry ==
    (/\ blk_last.op = "is_blocked"
     /\ blk_last.saw.kind = "block"
     /\ blk_last.saw.duration # NoExpiry
     /\ blk_last.saw = blk_written[blk_last.ip])
    => (blk_last.found <=> blk_last.at < blk_last.saw.at + blk_last.saw.duration)

\* C35: an is_blocked(ip) call that found an expired entry never removes or
\* hides a fresh entry that a concurrent block_ip(ip, ..) inserts: once
\* block_ip has returned (and until a later unblock_ip of the ip), the ip is
\* in the block list until the new expiry.
C35_FreshEntrySurvivesExpiredRead ==
    \A ip \in BlkIps :
        (/\ blk_written[ip].kind = "block"
         /\ (blk_written[ip].duration = NoExpiry
                \/ blk_now < blk_written[ip].at + blk_written[ip].duration))
        => /\ blocked_ips[ip].present
           /\ ~EntryExpired(blocked_ips[ip], blk_now)

(***************************************************************************)
(* Request handler  (src/src/proxy/http_handler.rs)  and adjudication      *)
(* pipeline  (src/src/protection/pipeline.rs).  The content-dependent      *)
(* stages (rules, fingerprint, header analysis) are driven by what the     *)
(* request carries; the stateful stages read the stores modelled above.    *)
(***************************************************************************)
PipeIps == {"203.0.113.7", "198.51.100.1"}

\* settings.protection.whitelisted_ips
whitelisted_ips == {"198.51.100.1"}

\* bounds of the pipeline model
MaxPipeNow == 400          \* last clock value, seconds
MaxReqCount == 2           \* cap of the per-second request counter
MaxMetric == 1             \* cap of the metric totals
ip_per_second == 1         \* RateLimitConfig.ip_per_second at every level

\* program constants
ReputationBlockScore == 5           \* IpReputationManager::record_block: +5
ReputationMaxScore == 100
reputation_block_threshold == 80
RateLimitScore == 90
HighThreatScore == 85               \* a fingerprint score >= 80
SuspiciousScore == 50               \* a header-analysis score below 80
AnalysisBlockScore == 80

\* What the content-dependent stages find in a request
Verdicts == {"clean", "rule_block", "high_threat", "suspicious"}
PipeRequests == [ip : PipeIps, method : {"GET", "OPTIONS"}, verdict : Verdicts]

\* The default levels main() may set at startup
PipeLevels == {0, 3}

PipeInit ==
    /\ req_window = [ip \in PipeIps |-> 0]
    /\ rep_scores = [ip \in PipeIps |-> 0]
    /\ pipe_metrics = [total |-> 0, blocked |-> 0]
    /\ pipe_last = [op |-> "new", ip |-> "none", method |-> "none", action |-> "none",
                    reason |-> "none", stages |-> <<>>, forwarded |-> FALSE,
                    was_banned |-> FALSE]

\* ProtectionPipeline::is_whitelisted
is_whitelisted(ip) == ip \in whitelisted_ips

\* Blocklist::check_ip -> MemoryStore::is_blocked
check_ip(blocked, ip) ==
    ip \in BlkIps /\ blocked[ip].present /\ ~EntryExpired(blocked[ip], blk_now)

\* is_blocked's removal of an expired entry on read
BlockedAfterCheck(blocked, ip) ==
    IF ip \in BlkIps /\ blocked[ip].present /\ EntryExpired(blocked[ip], blk_now)
    THEN [blocked EXCEPT ![ip] = NoEntry] ELSE blocked

\* pipeline stage 3: auto_ban.is_banned(ip)
AutoBanCheck(bans, ip, now) == ip \in BanIps /\ is_banned(bans, ip, now)

\* IpReputationManager::check: should_block
reputation_blocks(scores, ip) == scores[ip] >= reputation_block_threshold

\* IpReputationManager::record_block on the score table: +5, capped at 100
reputation_record_block(scores, ip) ==
    [scores EXCEPT ![ip] = Min(@ + ReputationBlockScore, ReputationMaxScore)]

\* ChallengeSystem::should_challenge
should_challenge(level, score) ==
    score > (CASE level = 0 -> 95 [] level = 1 -> 80 [] level = 2 -> 65
               [] level = 3 -> 40 [] OTHER -> 15)

\* MemoryStore::record_request on the per-IP window
record_request(window, ip) == [window EXCEPT ![ip] = Min(@ + 1, MaxReqCount)]

\* RateLimiter::check -> MemoryStore::check_rate_limit
rate_limit_exceeded(window, ip) == window[ip] > ip_per_second

PipeResult(action, reason, stages, blocked, window) ==
    [action |-> action, reason |-> reason, stages |-> stages,
     blocked |-> blocked, window |-> window]

\* ProtectionPipeline::process: the verdict, the stages that ran, and the
\* stores it wrote (block-list cache, request window)
process(req, level, now) ==
    LET ip == req.ip
        blocked1 == BlockedAfterCheck(blocked_ips, ip)
        window1 == record_request(req_window, ip)
        limited == rate_limit_exceeded(window1, ip)
        score == (IF limited THEN RateLimitScore ELSE 0)
                 + (IF req.verdict = "high_threat" THEN HighThreatScore ELSE 0)
                 + (IF req.verdict = "suspicious" THEN SuspiciousScore ELSE 0)
        s1 == <<"whitelist">>
        s2 == Append(s1, "blocklist")
        s3 == Append(s2, "auto_ban")
        s4 == Append(s3, "rules")
        s5 == Append(s4, "reputation")
        s6 == Append(Append(s5, "record_request"), "rate_limiter")
        s7 == Append(s6, "analysis")
        s8 == Append(s7, "challenge")
    IN  IF is_whitelisted(ip)
        THEN PipeResult("Pass", "none", s1, blocked_ips, req_window)
        ELSE IF check_ip(blocked_ips, ip)
        THEN PipeResult("Block", "BlockedIp", s2, blocked1, req_window)
        ELSE IF AutoBanCheck(active_bans, ip, now)
        THEN PipeResult("Block", "AutoBanned", s3, blocked1, req_window)
        ELSE IF req.verdict = "rule_block"
        THEN PipeResult("Block", "CustomRule", s4, blocked1, req_window)
        ELSE IF reputation_blocks(rep_scores, ip)
        THEN PipeResult("Block", "BadReputation", s5, blocked1, req_window)
        ELSE IF limited /\ level \in {3, 4}
        THEN PipeResult("Block", "RateLimit", s6, blocked1, window1)
        ELSE IF req.verdict = "high_threat" /\ HighThreatScore >= AnalysisBlockScore
        THEN PipeResult("Block", "SuspiciousFingerprint", s7, blocked1, window1)
        ELSE IF should_challenge(level, score)
        THEN PipeResult("Challenge", "ChallengeRequired", s8, blocked1, window1)
        ELSE PipeResult("Pass", "none", s8, blocked1, window1)

\* MetricsCollector::record_request
metrics_record(mt, action) ==
    [total |-> Min(mt.total + 1, MaxMetric),
     blocked |-> IF action \in {"Block", "Tarpit"}
                 THEN Min(mt.blocked + 1, MaxMetric) ELSE mt.blocked]

\* HttpHandler::handle for one request: the CORS-preflight shortcut, the
\* pipeline, the answer, and the post-processing (metrics)
Handle(req) ==
    /\ IF req.method = "OPTIONS"
       THEN /\ pipe_last' = [op |-> "handle", ip |-> req.ip, method |-> req.method,
                             action |-> "Bypass", reason |-> "none", stages |-> <<>>,
                             forwarded |-> TRUE,
                             was_banned |-> req.ip \in BanIps
                                            /\ BanActive(active_bans, req.ip, ban_now)]
            /\ UNCHANGED <<blocked_ips, req_window, pipe_metrics>>
       ELSE LET r == process(req, current_level, ban_now)
            IN  /\ blocked_ips' = r.blocked
                /\ req_window' = r.window
                /\ pipe_metrics' = metrics_record(pipe_metrics, r.action)
                /\ pipe_last' = [op |-> "handle", ip |-> req.ip, method |-> req.method,
                                 action |-> r.action, reason |-> r.reason,
                                 stages |-> r.stages,
                                 forwarded |-> r.action = "Pass",
                                 was_banned |-> req.ip \in BanIps
                                                /\ BanActive(active_bans, req.ip, ban_now)]
    /\ UNCHANGED rep_scores
    /\ UNCHANGED <<blk_now, blk_reader, blk_written, blk_last>>
    /\ UNCHANGED <<l4vars, escvars, banvars, ckvars, winvars, distvars, threadvars,
                   extvars>>

\* Time passes: the one-second request windows empty
PipeTick ==
    /\ ban_now + BanTickSecs <= MaxPipeNow
    /\ ban_now' = ban_now + BanTickSecs
    /\ ban_last' = [op |-> "tick", ip |-> "none", ret |-> FALSE]
    /\ req_window' = [ip \in PipeIps |-> 0]
    /\ UNCHANGED <<ban_history, active_bans, subnet_bans>>
    /\ UNCHANGED <<rep_scores, pipe_metrics, pipe_last>>
    /\ UNCHANGED <<l4vars, escvars, blkvars, ckvars, winvars, distvars, threadvars,
                   extvars>>

PipeNext ==
    \/ \E req \in PipeRequests : Handle(req)
    \/ \E ip \in BanIps : RecordBlock(ip)
    \/ \E ip \in PipeIps \cap BlkIps : BlockIp(ip, NoExpiry)
    \/ \E ip \in PipeIps \cap BlkIps : UnblockIp(ip)
    \/ \E level \in PipeLevels : SetLevel(level)
    \/ PipeTick

\* C2: every request the pipeline answers with Block is, by the end of its
\* handling, recorded in the IP's reputation (score +5, capped at 100) and, for
\* an IP not already banned, in its auto-ban block history.
C2_BlockIsRecorded ==
    [][\A req \in PipeRequests :
          (Handle(req) /\ pipe_last'.action = "Block") =>
             /\ rep_scores'[req.ip] =
                   Min(rep_scores[req.ip] + ReputationBlockScore, ReputationMaxScore)
             /\ (req.ip \in BanIps /\ ~BanActive(active_bans, req.ip, ban_now))
                   => Len(ban_history'[req.ip].blocks)
                         > Len(ban_history[req.ip].blocks)]_vars

\* C6: a request that arrives from an IP while its auto-ban is running is
\* answered Block(AutoBanned), and no later stage runs for it: no rule
\* evaluation, no request-window increment, no forwarding to the upstream.
C6_BannedRequestShortCircuits ==
    (pipe_last.op = "handle" /\ pipe_last.was_banned) =>
        /\ pipe_last.action = "Block"
        /\ pipe_last.reason = "AutoBanned"
        /\ pipe_last.stages = <<"whitelist", "blocklist", "auto_ban">>
        /\ ~pipe_last.forwarded

\* C31: every request that is forwarded to the upstream has first received a
\* Pass verdict from the pipeline, and no request from an IP that is on the
\* block list or auto-banned at that moment is forwarded, whatever its method.
C31_ForwardedOnlyAfterPass ==
    [][\A req \in PipeRequests :
          (Handle(req) /\ pipe_last'.forwarded) =>
             /\ pipe_last'.action = "Pass"
             /\ ~check_ip(blocked_ips, req.ip)
             /\ ~AutoBanCheck(active_bans, req.ip, ban_now)]_vars

(***************************************************************************)
(* ProtectionPipeline::process stage by stage                              *)
(* (src/src/protection/pipeline.rs:110-412).  A request is what each stage *)
(* finds in it; process runs the stages up to the load of the protection   *)
(* level (line 275), and goes on later with the level it loaded, while the *)
(* level may be set by others.                                             *)
(***************************************************************************)
\* process with the static-asset bypass moved to the front
StaticFirstStages ==
    << "static_asset", "whitelist", "ip_blocklist", "auto_ban", "custom_rules",
       "managed_rules", "country", "asn", "bot_whitelist", "reputation",
       "rate_limit", "distributed", "asn_score", "fingerprint", "headers",
       "mobile_proxy", "behaviour", "challenge_gate", "default_pass" >>

\* The stages in the order process executes them
PipelineStages ==
    << "whitelist", "ip_blocklist", "auto_ban", "custom_rules", "managed_rules",
       "country", "asn", "static_asset", "bot_whitelist", "reputation",
       "rate_limit", "distributed", "asn_score", "fingerprint", "headers",
       "mobile_proxy", "behaviour", "challenge_gate", "default_pass" >>

\* the stages process runs before it loads the protection level
StagesBeforeLevel == 10

\* What a stage can find in a request, other than nothing
Findings ==
    [whitelist |-> {"hit"}, ip_blocklist |-> {"hit"}, auto_ban |-> {"hit"},
     custom_rules |-> {"Pass", "Block", "Challenge", "Tarpit"},
     managed_rules |-> {"Block", "Challenge", "Score"},
     country |-> {"Block", "Challenge"}, asn |-> {"hit"},
     static_asset |-> {"hit"}, bot_whitelist |-> {"hit"},
     reputation |-> {"Block", "score"},
     rate_limit |-> {"burst", "flood"},
     distributed |-> {"score"}, asn_score |-> {"score"},
     fingerprint |-> {"anomaly", "high"}, headers |-> {"anomaly", "high"},
     mobile_proxy |-> {"suspect", "high"}, behaviour |-> {"score"},
     always_challenge |-> {"hit"}, exempt_path |-> {"hit"},
     clearance |-> {"hit"}]

FactKeys == DOMAIN Findings

\* A request in which no stage finds anything
CleanRequest == [k \in FactKeys |-> "none"]

FindingOptions == {<<k, v>> : k \in FactKeys, v \in UNION {Findings[j] : j \in FactKeys}}
                     \cap {o \in FactKeys \X UNION {Findings[j] : j \in FactKeys} :
                              o[2] \in Findings[o[1]]}

\* The requests of the model: at most two findings each
StageRequests ==
    {CleanRequest}
    \cup {[CleanRequest EXCEPT ![o[1]] = o[2]] : o \in FindingOptions}
    \cup {[CleanRequest EXCEPT ![o[1]] = o[2], ![q[1]] = q[2]] :
             o \in FindingOptions, q \in FindingOptions}

\* scores the stages add to cumulative_score
RuleChallengeScore == 80
ManagedRuleScore == 30
country_challenge_score == 20
ReputationScore == 40
AnomalyScore == 40
BehaviourScore == 20
\* requests per second of the client: a burst, a flood
BurstRate == 10
FloodRate == 60

\* RateLimiter::get_limits_for_level: ip_per_second of the level, the
\* ip_per_10s of the defaults divided by 10
ip_limit(level) ==
    CASE level = 0 -> 50 [] level = 1 -> 30 [] level = 2 -> 15
      [] level = 3 -> 5 [] OTHER -> 5

\* ChallengeSystem::should_challenge: the threshold of the level
challenge_threshold(level) ==
    CASE level = 0 -> 95 [] level = 1 -> 80 [] level = 2 -> 65
      [] level = 3 -> 40 [] OTHER -> 15

\* ChallengeSystem::generate_challenge_page: the PoW difficulty of the level
pow_difficulty(level) ==
    CASE level \in {0, 1} -> 16 [] level = 2 -> 18 [] OTHER -> 20

request_rate(f) ==
    CASE f.rate_limit = "burst" -> BurstRate
      [] f.rate_limit = "flood" -> FloodRate
      [] OTHER -> 1

Continue(add) == [verdict |-> "continue", reason |-> "none", add |-> add]
Return(verdict, reason) == [verdict |-> verdict, reason |-> reason, add |-> 0]

\* no level blocks on an exceeded rate limit
NeverEmergency(level) == FALSE

\* process, on an exceeded rate limit: match protection_level { L3 | L4 => .. }
emergency_block(level) == level \in {3, 4}

\* One stage of process on the findings f, with the protection level of the
\* request and the cumulative score so far: it returns a verdict, or
\* continues and adds to the score
stage_outcome(stage, f, level, score) ==
    CASE stage = "whitelist" ->
            IF f.whitelist = "hit" THEN Return("Pass", "none") ELSE Continue(0)
      [] stage = "ip_blocklist" ->
            IF f.ip_blocklist = "hit" THEN Return("Block", "BlockedIp") ELSE Continue(0)
      [] stage = "auto_ban" ->
            IF f.auto_ban = "hit" THEN Return("Block", "AutoBanned") ELSE Continue(0)
      [] stage = "custom_rules" ->
            CASE f.custom_rules = "Pass" -> Return("Pass", "none")
              [] f.custom_rules = "Block" -> Return("Block", "CustomRule")
              [] f.custom_rules = "Tarpit" -> Return("Tarpit", "CustomRule")
              [] f.custom_rules = "Challenge" -> Continue(RuleChallengeScore)
              [] OTHER -> Continue(0)
      [] stage = "managed_rules" ->
            CASE f.managed_rules = "Block" -> Return("Block", "ManagedRule")
              [] f.managed_rules = "Challenge" -> Continue(RuleChallengeScore)
              [] f.managed_rules = "Score" -> Continue(ManagedRuleScore)
              [] OTHER -> Continue(0)
      [] stage = "country" ->
            CASE f.country = "Block" -> Return("Block", "BlockedCountry")
              [] f.country = "Challenge" -> Continue(country_challenge_score)
              [] OTHER -> Continue(0)
      [] stage = "asn" ->
            IF f.asn = "hit" THEN Return("Block", "BlockedAsn") ELSE Continue(0)
      [] stage = "static_asset" ->
            IF f.static_asset = "hit" THEN Return("Pass", "none") ELSE Continue(0)
      [] stage = "bot_whitelist" ->
            IF f.bot_whitelist = "hit" THEN Return("Pass", "none") ELSE Continue(0)
      [] stage = "reputation" ->
            CASE f.reputation = "Block" -> Return("Block", "BadReputation")
              [] f.reputation = "score" -> Continue(ReputationScore)
              [] OTHER -> Continue(0)
      [] stage = "rate_limit" ->
            IF request_rate(f) > ip_limit(level)
            THEN IF emergency_block(level) THEN Return("Block", "RateLimit")
                 ELSE Continue(RateLimitScore)
            ELSE Continue(0)
      [] stage = "distributed" ->
            IF f.distributed = "score" THEN Continue(AnomalyScore) ELSE Continue(0)
      [] stage = "asn_score" ->
            IF f.asn_score = "score" THEN Continue(AnomalyScore) ELSE Continue(0)
      [] stage = "fingerprint" ->
            CASE f.fingerprint = "high" -> Return("Block", "Fingerprint")
              [] f.fingerprint = "anomaly" -> Continue(AnomalyScore)
              [] OTHER -> Continue(0)
      [] stage = "headers" ->
            CASE f.headers = "high" -> Return("Block", "Headers")
              [] f.headers = "anomaly" -> Continue(AnomalyScore)
              [] OTHER -> Continue(0)
      [] stage = "mobile_proxy" ->
            CASE f.mobile_proxy = "high" -> Return("Block", "MobileProxy")
              [] f.mobile_proxy = "suspect" -> Continue(AnomalyScore)
              [] OTHER -> Continue(0)
      [] stage = "behaviour" ->
            IF f.behaviour = "score" THEN Continue(BehaviourScore) ELSE Continue(0)
      [] stage = "challenge_gate" ->
            IF f.always_challenge = "hit" \/ score > challenge_threshold(level)
            THEN IF f.exempt_path = "hit" THEN Continue(0)
                 ELSE IF f.clearance = "hit" THEN Return("Pass", "none")
                 ELSE Return("Challenge", "ChallengeRequired")
            ELSE Continue(0)
      [] OTHER -> Return("Pass", "none")       \* default pass

\* What is known of a request inside process.  trace: the stages that ran;
\* scores: cumulative_score after each of them;
\* limit, threshold, difficulty: the rate limit, the challenge threshold and
\* the PoW difficulty it was held to (0: none yet)
NoFlight ==
    [pc |-> "idle", facts |-> CleanRequest, level |-> 0, score |-> 0,
     trace |-> <<>>, scores |-> <<>>, verdict |-> "none", reason |-> "none",
     limit |-> 0, threshold |-> 0, difficulty |-> 0]

FlightInit ==
    /\ pipe_flight = NoFlight

\* the stages stages[from..to] run one after the other on the flight fl, up
\* to the first that returns
RECURSIVE run_stages(_, _, _, _, _)
run_stages(stages, from, to, fl, level) ==
    IF from > to THEN fl
    ELSE LET stage == stages[from]
             r == stage_outcome(stage, fl.facts, level, fl.score)
             fl1 == [fl EXCEPT
                       !.trace = Append(@, stage),
                       !.score = @ + r.add,
                       !.scores = Append(@, fl.score + r.add),
                       !.limit = IF stage = "rate_limit" THEN ip_limit(level) ELSE @,
                       !.threshold = IF stage = "challenge_gate"
                                     THEN challenge_threshold(level) ELSE @,
                       !.difficulty = IF r.verdict = "Challenge"
                                      THEN pow_difficulty(level) ELSE @]
         IN  IF r.verdict # "continue"
             THEN [fl1 EXCEPT !.pc = "done", !.verdict = r.verdict,
                              !.reason = r.reason]
             ELSE run_stages(stages, from + 1, to, fl1, level)

\* a stage reading the engine's level again
EngineLevelNow(fl) == current_level

\* the local protection_level of process, which every later stage is given
protection_level(fl) == fl.level

\* process from its entry to the load of the protection level: the stages
\* before it, and self.escalation.current_level()
ProcessBegin(f) ==
    /\ pipe_flight.pc = "idle"
    /\ LET fl == run_stages(PipelineStages, 1, StagesBeforeLevel,
                            [NoFlight EXCEPT !.facts = f], 0)
       IN  pipe_flight' = IF fl.pc = "done" THEN fl
                          ELSE [fl EXCEPT !.pc = "loaded", !.level = current_level]
    /\ UNCHANGED BesidesFlight

\* process from the rate limiter to its return
ProcessFinish ==
    /\ pipe_flight.pc = "loaded"
    /\ pipe_flight' = run_stages(PipelineStages, StagesBeforeLevel + 1,
                                 Len(PipelineStages), pipe_flight,
                                 protection_level(pipe_flight))
    /\ UNCHANGED BesidesFlight

\* the handler has taken the PipelineResult
ProcessReturn ==
    /\ pipe_flight.pc = "done"
    /\ pipe_flight' = NoFlight
    /\ UNCHANGED BesidesFlight

StagesNext ==
    \/ \E f \in StageRequests : ProcessBegin(f)
    \/ ProcessFinish
    \/ ProcessReturn
    \/ \E level \in Levels : SetLevel(level)

\* C19: a request reads the engine's level once; when the level changes
\* while the request is adjudicated, its rate limit, its Block-versus-score
\* decision, its challenge threshold and its PoW difficulty are those of the
\* level it read.
C19_LevelReadOnce ==
    pipe_flight.pc = "done" =>
        LET fl == pipe_flight
            limited == request_rate(fl.facts) > ip_limit(fl.level)
        IN  /\ fl.limit \in {0, ip_limit(fl.level)}
            /\ fl.threshold \in {0, challenge_threshold(fl.level)}
            /\ fl.difficulty \in {0, pow_difficulty(fl.level)}
            /\ fl.verdict = "Challenge" => fl.difficulty = pow_difficulty(fl.level)
            /\ fl.reason = "RateLimit" <=> (limited /\ fl.limit # 0 /\ fl.level \in {3, 4})
            /\ (fl.reason = "ChallengeRequired" /\ fl.facts.always_challenge # "hit")
                  => fl.score > challenge_threshold(fl.level)

\* A request read L0, the level was set to L4 while it was adjudicated, and
\* it was answered with a challenge of the L0 difficulty after it passed the
\* L0 rate limit with a rate over the L4 limit
C19_Witness ==
    /\ pipe_flight.pc = "done"
    /\ pipe_flight.level = 0
    /\ current_level = 4
    /\ pipe_flight.facts.rate_limit = "burst"
    /\ pipe_flight.verdict = "Challenge"
    /\ pipe_flight.limit = ip_limit(0)
    /\ pipe_flight.difficulty = pow_difficulty(0)

\* C29: when the rate limiter reports an exceeded limit for a request, the
\* request is blocked with reason RateLimit at the rate-limit stage if its
\* level is L3 or L4; at L0 to L2 the stage does not block it, adds 90 to its
\* cumulative score, and the later stages run.
C29_ExceededLimitBlocksOrScores ==
    (pipe_flight.pc = "done" /\ pipe_flight.limit # 0) =>
        LET fl == pipe_flight
            i == CHOOSE k \in DOMAIN fl.trace : fl.trace[k] = "rate_limit"
            exceeded == request_rate(fl.facts) > fl.limit
            added == fl.scores[i] - fl.scores[i - 1]
        IN  /\ (exceeded /\ fl.level \in {3, 4})
                  => /\ fl.verdict = "Block"
                     /\ fl.reason = "RateLimit"
                     /\ Len(fl.trace) = i
            /\ (exceeded /\ fl.level \in {0, 1, 2})
                  => /\ fl.reason # "RateLimit"
                     /\ Len(fl.trace) > i
                     /\ added = 90
            /\ ~exceeded => (fl.reason # "RateLimit" /\ added = 0)

\* A burst over the L2 limit at L2 went on with 90 on its score and was
\* challenged at the gate
C29_Witness ==
    /\ pipe_flight.pc = "done"
    /\ pipe_flight.level = 2
    /\ pipe_flight.facts.rate_limit = "flood"
    /\ pipe_flight.limit = ip_limit(2)
    /\ pipe_flight.score = 90
    /\ pipe_flight.verdict = "Challenge"
    /\ pipe_flight.reason = "ChallengeRequired"

\* The canonical order of the stages
CanonicalOrder ==
    << "whitelist", "ip_blocklist", "auto_ban", "custom_rules", "managed_rules",
       "country", "asn", "static_asset", "bot_whitelist", "reputation",
       "rate_limit", "distributed", "asn_score", "fingerprint", "headers",
       "mobile_proxy", "behaviour", "challenge_gate", "default_pass" >>

\* The cumulative score the first n stages of the canonical order leave
RECURSIVE CanonicalScore(_, _, _)
CanonicalScore(f, level, n) ==
    IF n = 0 THEN 0
    ELSE LET before == CanonicalScore(f, level, n - 1)
         IN  before + stage_outcome(CanonicalOrder[n], f, level, before).add

\* The outcome of the n-th stage of the canonical order for a request
CanonicalOutcome(f, level, n) ==
    stage_outcome(CanonicalOrder[n], f, level, CanonicalScore(f, level, n - 1))

\* C20: process evaluates its stages in the canonical order, and the verdict
\* of a request is the verdict of the first stage that short-circuits: the
\* stages that ran are the canonical order up to the first stage that
\* returns a verdict for the request, and that verdict is the result.
C20_FirstShortCircuitDecides ==
    pipe_flight.pc = "done" =>
        LET fl == pipe_flight
            n == Len(fl.trace)
        IN  /\ n \in 1..Len(CanonicalOrder)
            /\ fl.trace = SubSeq(CanonicalOrder, 1, n)
            /\ \A i \in 1..(n - 1) :
                  CanonicalOutcome(fl.facts, fl.level, i).verdict = "continue"
            /\ CanonicalOutcome(fl.facts, fl.level, n).verdict = fl.verdict
            /\ CanonicalOutcome(fl.facts, fl.level, n).reason = fl.reason
            /\ fl.verdict # "continue"

\* A request for a static asset from a blocked country was answered by the
\* country stage, the earlier of the two, after the five stages before it
C20_Witness ==
    /\ pipe_flight.pc = "done"
    /\ pipe_flight.facts.static_asset = "hit"
    /\ pipe_flight.facts.country = "Block"
    /\ pipe_flight.verdict = "Block"
    /\ pipe_flight.reason = "BlockedCountry"
    /\ Len(pipe_flight.trace) = 6

(***************************************************************************)
(* Clearance cookies of the challenge system                               *)
(* (src/src/protection/challenge.rs).  A cookie value is the five fields   *)
(* timestamp:random_hex:ip_hash:nonce:signature; SHA-256 and HMAC-SHA256   *)
(* are modelled as injective on their inputs, so a digest is the record of *)
(* what was hashed and under which key.                                    *)
(***************************************************************************)
\* Client addresses, as their four octets: two hosts of 10.0.0.0/24, the
\* network address of that /24, and a host of another /24
CkIps == {<<10, 0, 0, 5>>, <<10, 0, 0, 9>>, <<10, 0, 0, 0>>, <<10, 0, 1, 5>>}

\* Secrets the operator may configure, and one that a client guesses
Secrets == {"k1", "k2"}
GuessedSecret == "guess"

MaxCkNow == 60
CkTickSecs == 30
MaxIssued == 1
\* ChallengeConfig.cookie_max_age_secs, scaled down to one clock step
cookie_max_age_secs == 30

CkTimes == {t \in 0..MaxCkNow : t % CkTickSecs = 0}

\* A request without a Cookie header, or without the clearance cookie
NoCookie == [absent |-> TRUE]

CkInit ==
    /\ ck_now = 0
    /\ hmac_secret = "k1"
    /\ cookie_subnet_binding = FALSE
    /\ ck_issued = {}
    /\ ck_last = [op |-> "new", ip |-> <<0, 0, 0, 0>>, ret |-> FALSE]

\* Mutation of ip_str: every address is bound to the same string
UnboundIpStr(ip, binding) == <<0, 0, 0, 0>>

\* The string hash_ip digests: "a.b.c.0" under subnet binding, else the address
ip_str(ip, binding) ==
    IF binding THEN <<ip[1], ip[2], ip[3], 0>> ELSE ip

\* ChallengeSystem::hash_ip: SHA-256 of the address string followed by the secret
hash_ip(ip, secret, binding) ==
    [sha256 |-> <<ip_str(ip, binding), secret>>]

\* ChallengeSystem::compute_signature: HMAC over challenge:nonce:purpose
compute_signature(secret, challenge, nonce, purpose) ==
    [hmac_key |-> secret, data |-> <<challenge, nonce, purpose>>]

\* ChallengeSystem::generate_clearance_cookie, the cookie value it formats
generate_clearance_cookie(ip, now, random_hex, secret, binding) ==
    LET ip_hash   == hash_ip(ip, secret, binding)
        challenge == <<now, random_hex, ip_hash>>
        nonce     == "0"
    IN  [timestamp  |-> now,
         random_hex |-> random_hex,
         ip_hash    |-> ip_hash,
         nonce      |-> nonce,
         signature  |-> compute_signature(secret, challenge, nonce, "clearance")]

\* ChallengeSystem::generate_challenge_page signs its no-JS token with the
\* purpose "nojs"; a client may paste that signature into a cookie
NojsSignedCookie(ip, ts, random_hex, secret, binding) ==
    [timestamp  |-> ts,
     random_hex |-> random_hex,
     ip_hash    |-> hash_ip(ip, secret, binding),
     nonce      |-> "0",
     signature  |-> compute_signature(secret, <<ts, random_hex>>, "0", "nojs")]

\* ChallengeSystem::has_valid_clearance
has_valid_clearance(ip, cookies, now, secret, binding) ==
    IF cookies = NoCookie THEN FALSE
    ELSE LET challenge == <<cookies.timestamp, cookies.random_hex, cookies.ip_hash>>
             expected_signature ==
                 compute_signature(secret, challenge, cookies.nonce, "clearance")
             age == now - cookies.timestamp
         IN  IF cookies.signature # expected_signature THEN FALSE
             ELSE IF age < 0 \/ age > cookie_max_age_secs THEN FALSE
             ELSE IF cookies.ip_hash # hash_ip(ip, secret, binding) THEN FALSE
             ELSE TRUE

\* What a client can present: nothing, a cookie it was issued, an issued
\* cookie with one field replaced, a cookie signed with a guessed secret,
\* or a cookie carrying the signature of a challenge page
IssuedValues == {c.value : c \in ck_issued}
TamperedValues ==
    UNION {{[v EXCEPT !.timestamp = t] : t \in CkTimes}
           \cup {[v EXCEPT !.ip_hash = w.ip_hash] : w \in IssuedValues}
           \cup {[v EXCEPT !.signature = w.signature] : w \in IssuedValues}
           : v \in IssuedValues}
ForgedValues(ip) ==
    {generate_clearance_cookie(ip, ck_now, "r1", GuessedSecret, cookie_subnet_binding)}
    \cup {NojsSignedCookie(ip, ck_now, "r1", hmac_secret, cookie_subnet_binding)}
PresentedValues(ip) ==
    {NoCookie} \cup IssuedValues \cup TamperedValues \cup ForgedValues(ip)

\* handle_challenge_verification / handle_nojs_verification succeeded for ip:
\* the handler issues a clearance cookie
Generate(ip) ==
    /\ Cardinality(ck_issued) < MaxIssued
    /\ ck_issued' = ck_issued \cup
           {[value |-> generate_clearance_cookie(ip, ck_now, "r1", hmac_secret,
                                                  cookie_subnet_binding),
             ip |-> ip, at |-> ck_now,
             secret |-> hmac_secret, binding |-> cookie_subnet_binding]}
    /\ UNCHANGED <<ck_now, hmac_secret, cookie_subnet_binding, ck_last>>
    /\ UNCHANGED NotCk

\* has_valid_clearance as the running challenge system answers it
HasValidClearanceNow(ip, cookies) ==
    has_valid_clearance(ip, cookies, ck_now, hmac_secret, cookie_subnet_binding)

\* A request of ip reaches the challenge stage carrying some cookie a client
\* can present, and has_valid_clearance answers ret
Verify(ip, ret) ==
    /\ ret \in {HasValidClearanceNow(ip, cookies) : cookies \in PresentedValues(ip)}
    /\ ck_last' = [op |-> "verify", ip |-> ip, ret |-> ret]
    /\ UNCHANGED <<ck_now, hmac_secret, cookie_subnet_binding, ck_issued>>
    /\ UNCHANGED NotCk

\* The proxy is restarted with another challenge configuration
\* (ChallengeSystem::new); cookies already handed out stay with the clients
Reconfigure(secret, binding) ==
    /\ <<secret, binding>> # <<hmac_secret, cookie_subnet_binding>>
    /\ hmac_secret' = secret
    /\ cookie_subnet_binding' = binding
    /\ ck_last' = [op |-> "new", ip |-> <<0, 0, 0, 0>>, ret |-> FALSE]
    /\ UNCHANGED <<ck_now, ck_issued>>
    /\ UNCHANGED NotCk

CkTick ==
    /\ ck_now + CkTickSecs <= MaxCkNow
    /\ ck_now' = ck_now + CkTickSecs
    /\ ck_last' = [op |-> "tick", ip |-> <<0, 0, 0, 0>>, ret |-> FALSE]
    /\ UNCHANGED <<hmac_secret, cookie_subnet_binding, ck_issued>>
    /\ UNCHANGED NotCk

CkNext ==
    \/ \E ip \in CkIps : Generate(ip)
    \/ \E ip \in CkIps, ret \in BOOLEAN : Verify(ip, ret)
    \/ \E secret \in Secrets, binding \in BOOLEAN : Reconfigure(secret, binding)
    \/ CkTick

\* ---- Observers for the claims about clearance cookies

\* cookies is a value generate_clearance_cookie produced for exactly ip, no
\* more than cookie_max_age_secs ago, under the secret and subnet-binding
\* setting now in force
IssuedForIp(ip, cookies) ==
    \E c \in ck_issued :
        /\ c.value = cookies
        /\ c.ip = ip
        /\ ck_now - c.at <= cookie_max_age_secs
        /\ c.secret = hmac_secret
        /\ c.binding = cookie_subnet_binding

\* The address a cookie is bound to under a subnet-binding setting
BoundAddress(ip, binding) ==
    IF binding THEN <<ip[1], ip[2], ip[3], 0>> ELSE ip

\* As IssuedForIp, but for any address bound to the same address as ip
IssuedForBoundAddress(ip, cookies) ==
    \E c \in ck_issued :
        /\ c.value = cookies
        /\ BoundAddress(c.ip, c.binding) = BoundAddress(ip, cookie_subnet_binding)
        /\ ck_now - c.at <= cookie_max_age_secs
        /\ c.secret = hmac_secret

TicksPerMs == 3
\* Duration::from_secs(window_secs), in ticks
WindowTicks == 6
MaxWinNow == 15
MaxIncs == 4

\* The process has been up for at least one window when the counter is made
WinInit ==
    /\ win_now = WindowTicks
    /\ win_counts = <<>>
    /\ win_incs = <<>>
    /\ win_last = [op |-> "new", ret |-> 0]

\* Mutation of Coalesces: increments up to 2 ms apart are merged
CoalescesWithinTwoMs(now, last_ts) == now - last_ts < 2 * TicksPerMs

\* increment: now.duration_since(last.0) < Duration::from_millis(1)
Coalesces(now, last_ts) == now - last_ts < TicksPerMs

\* SlidingWindow::increment
increment(counts, now) ==
    IF counts # <<>> /\ Coalesces(now, counts[Len(counts)].ts)
    THEN [counts EXCEPT ![Len(counts)].n = @ + 1]
    ELSE Append(counts, [ts |-> now, n |-> 1])

\* SlidingWindow::count
count(counts, now) ==
    LET cutoff == now - WindowTicks
    IN  SeqSum([i \in 1..Len(counts) |->
                   IF counts[i].ts >= cutoff THEN counts[i].n ELSE 0])

\* SlidingWindow::cleanup: pop entries from the front while they are older
\* than the window
RECURSIVE cleanup(_, _)
cleanup(counts, now) ==
    IF counts # <<>> /\ Head(counts).ts < now - WindowTicks
    THEN cleanup(Tail(counts), now)
    ELSE counts

\* MemoryStore::record_request: window.increment()
Increment ==
    /\ Len(win_incs) < MaxIncs
    /\ win_counts' = increment(win_counts, win_now)
    /\ win_incs' = Append(win_incs, win_now)
    /\ win_last' = [op |-> "increment", ret |-> 0]
    /\ UNCHANGED win_now
    /\ UNCHANGED NotWin

\* MemoryStore::check_rate_limit: window.count()
Count ==
    /\ win_last' = [op |-> "count", ret |-> count(win_counts, win_now)]
    /\ UNCHANGED <<win_now, win_counts, win_incs>>
    /\ UNCHANGED NotWin

\* MemoryStore::cleanup: window.cleanup()
WinCleanup ==
    /\ win_counts' = cleanup(win_counts, win_now)
    /\ win_last' = [op |-> "cleanup", ret |-> 0]
    /\ UNCHANGED <<win_now, win_incs>>
    /\ UNCHANGED NotWin

WinTick ==
    /\ win_now < MaxWinNow
    /\ win_now' = win_now + 1
    /\ win_last' = [op |-> "tick", ret |-> 0]
    /\ UNCHANGED <<win_counts, win_incs>>
    /\ UNCHANGED NotWin

WinNext == Increment \/ Count \/ WinCleanup \/ WinTick

\* ---- Observers for the claims about the sliding window

\* The number of increments made in (now - width, now]
ExactCount ==
    Cardinality({i \in 1..Len(win_incs) :
                    /\ win_incs[i] > win_now - WindowTicks
                    /\ win_incs[i] <= win_now})

\* The number of increments made less than 1 ms from the window edge
NearEdgeCount ==
    Cardinality({i \in 1..Len(win_incs) :
                    /\ win_incs[i] - (win_now - WindowTicks) < TicksPerMs
                    /\ (win_now - WindowTicks) - win_incs[i] < TicksPerMs})

\* C9: for any sequence of increments, count(now) equals the number of
\* increments made in (now - width, now], with an error limited to the
\* increments lying within 1 ms of the window edge.
C9_CountWithinCoalescingTolerance ==
    win_last.op = "count" =>
        /\ win_last.ret - ExactCount <= NearEdgeCount
        /\ ExactCount - win_last.ret <= NearEdgeCount

\* A count that misses an increment inside the window, because the increment
\* was merged into an entry that starts before the window edge
C9_Witness ==
    /\ win_last.op = "count"
    /\ win_last.ret < ExactCount
    /\ Len(win_incs) = MaxIncs

(***************************************************************************)
(* Distributed-attack detector  (src/src/protection/distributed.rs).       *)
(* ua_counts is kept as its key set (check reads only its length);         *)
(* known_ips is kept as a set (its timestamps are read only by the hourly  *)
(* cleanup, beyond the horizon of the clock); last_attack is a log record  *)
(* and left out.  Requests arrive in bursts of identical requests that     *)
(* check handles one after the other.                                     *)
(***************************************************************************)
DistPaths == {"/login", "/other"}
DistIps == {"198.51.100.7"}
\* User-Agent header values; 0 is a request without the header (check uses "")
MaxUa == 4
NoUserAgent == 0

RequestsPerBurst == 5
MaxBursts == 10
MaxOtherBursts == 3
DistTickSecs == 20
MaxDistNow == 45

\* Literals of DistributedDetector::new and DistributedDetector::check
window_duration == 30
MinWindowRequests == 50
PathConcentrationNum == 7
PathConcentrationDen == 10
LowUaDiversity == 5
NewIpRatioNum == 8
NewIpRatioDen == 10
MinWindowIps == 20
MinSignals == 2

NoPathCounts == [p \in DistPaths |-> 0]
NoRequests == [paths |-> NoPathCounts, uas |-> {}]

\* DistributedDetector::new
NewDetector(now) ==
    [path_counts    |-> NoPathCounts,
     ua_counts      |-> {},
     total_requests |-> 0,
     window_ips     |-> {},
     known_ips      |-> {},
     new_ip_count   |-> 0,
     window_start   |-> now,
     attack_active  |-> FALSE]

DistInit ==
    /\ dist_now = 0
    /\ detector = NewDetector(0)
    /\ reqs_prev = NoRequests
    /\ reqs_cur = NoRequests
    /\ dist_last = [op |-> "new"]

\* DistributedDetector::maybe_rotate_window
maybe_rotate_window(d, now) ==
    IF now - d.window_start >= window_duration
    THEN [d EXCEPT !.window_start = now,
                   !.path_counts = NoPathCounts,
                   !.ua_counts = {},
                   !.total_requests = 0,
                   !.window_ips = {},
                   !.new_ip_count = 0]
    ELSE d

\* DistributedDetector::get_top_path, the count of the top path
TopPathCount(path_counts) ==
    CHOOSE n \in {path_counts[p] : p \in DistPaths} :
        \A p \in DistPaths : path_counts[p] <= n

\* Mutation of EnoughSignals: all three signals are required
AllSignalsRequired(n) == n >= MinSignals + 1

\* check: signals.len() >= 2
EnoughSignals(n) == n >= MinSignals

\* check: the signals evaluated once the window holds 50 requests
SignalCount(d) ==
    LET total     == d.total_requests
        top       == TopPathCount(d.path_counts)
        total_ips == Cardinality(d.window_ips)
        path_concentration ==
            top * PathConcentrationDen > PathConcentrationNum * total
        low_ua_diversity == Cardinality(d.ua_counts) < LowUaDiversity
        high_new_ip_ratio ==
            /\ total_ips > 0
            /\ d.new_ip_count * NewIpRatioDen > NewIpRatioNum * total_ips
            /\ total_ips >= MinWindowIps
    IN  (IF path_concentration THEN 1 ELSE 0)
        + (IF low_ua_diversity THEN 1 ELSE 0)
        + (IF high_new_ip_ratio THEN 1 ELSE 0)

\* DistributedDetector::check, the detector it leaves behind
check(d0, req, now) ==
    LET d1 == maybe_rotate_window(d0, now)
        is_new == req.ip \notin d1.known_ips
        d2 == [d1 EXCEPT !.total_requests = @ + 1,
                         !.path_counts[req.path] = @ + 1,
                         !.ua_counts = @ \cup {req.ua},
                         !.new_ip_count = IF is_new THEN @ + 1 ELSE @,
                         !.window_ips = @ \cup {req.ip},
                         !.known_ips = @ \cup {req.ip}]
        is_attack == EnoughSignals(SignalCount(d2))
    IN  IF d2.total_requests < MinWindowRequests THEN d2
        ELSE IF is_attack /\ ~d2.attack_active
                 THEN [d2 EXCEPT !.attack_active = TRUE]
        ELSE IF ~is_attack /\ d2.attack_active
                 THEN [d2 EXCEPT !.attack_active = FALSE]
        ELSE d2

\* score_modifier of check: attack + new IP, attack + existing IP
NewIpAttackScore == 30
KnownIpAttackScore == 10

\* DistributedDetector::check, the DistributedCheckResult it returns
check_result(d0, req, now) ==
    LET d1 == maybe_rotate_window(d0, now)
        is_new == req.ip \notin d1.known_ips
        d2 == check(d0, req, now)
        is_attack == /\ d2.total_requests >= MinWindowRequests
                     /\ EnoughSignals(SignalCount(d2))
    IN  [is_attack |-> is_attack,
         score_modifier |-> IF is_attack
                            THEN IF is_new THEN NewIpAttackScore ELSE KnownIpAttackScore
                            ELSE 0,
         is_new_ip |-> is_new]

\* the calls of a burst: what each check returned, and attack_active as the
\* check left it
RECURSIVE BurstCalls(_, _, _, _)
BurstCalls(d, req, now, n) ==
    IF n = 0 THEN {}
    ELSE {[result |-> check_result(d, req, now),
           attack_active |-> check(d, req, now).attack_active]}
         \cup BurstCalls(check(d, req, now), req, now, n - 1)

\* n calls of check for the same request, one after the other
RECURSIVE CheckTimes(_, _, _, _)
CheckTimes(d, req, now, n) ==
    IF n = 0 THEN d ELSE CheckTimes(check(d, req, now), req, now, n - 1)

\* The requests of a burst added to an observer record
Arrived(reqs, req, n) ==
    [paths |-> [reqs.paths EXCEPT ![req.path] = @ + n],
     uas   |-> reqs.uas \cup {req.ua}]

RequestsIn(reqs) == reqs.paths["/login"] + reqs.paths["/other"]

\* The User-Agent values a burst may carry: none, the first one, or the
\* next one not seen so far
UaChoices ==
    LET seen == reqs_prev.uas \cup reqs_cur.uas
    IN  {NoUserAgent, 1} \cup
        {ua \in 2..MaxUa : ua \notin seen /\ \A prior \in 1..(ua - 1) : prior \in seen}

DistRequests ==
    [ip : DistIps, path : DistPaths, ua : UaChoices]

\* process: distributed.check for each request of a burst
CheckBurst(req) ==
    /\ RequestsIn(reqs_prev) + RequestsIn(reqs_cur)
           + RequestsPerBurst <= MaxBursts * RequestsPerBurst
    /\ req.path = "/other" =>
           reqs_prev.paths["/other"] + reqs_cur.paths["/other"]
               < MaxOtherBursts * RequestsPerBurst
    /\ detector' = CheckTimes(detector, req, dist_now, RequestsPerBurst)
    /\ reqs_cur' = Arrived(reqs_cur, req, RequestsPerBurst)
    /\ dist_last' = [op |-> "check",
                     calls |-> BurstCalls(detector, req, dist_now, RequestsPerBurst)]
    /\ UNCHANGED <<dist_now, reqs_prev>>
    /\ UNCHANGED NotDist

DistTick ==
    /\ dist_now + DistTickSecs <= MaxDistNow
    /\ dist_now' = dist_now + DistTickSecs
    /\ reqs_prev' = reqs_cur
    /\ reqs_cur' = NoRequests
    /\ dist_last' = [op |-> "tick"]
    /\ UNCHANGED detector
    /\ UNCHANGED NotDist

DistNext ==
    \/ \E req \in DistRequests : CheckBurst(req)
    \/ DistTick

\* ---- Observers for the claims about the detector

\* The requests that arrived within the last clock step, less than 30 s
Recent ==
    [paths |-> [p \in DistPaths |-> reqs_prev.paths[p] + reqs_cur.paths[p]],
     uas   |-> reqs_prev.uas \cup reqs_cur.uas]

\* 50 or more requests, more than 70% of them for one path, carrying fewer
\* than 5 distinct User-Agent values (a missing header counted as a value)
AttackPattern(reqs) ==
    /\ RequestsIn(reqs) >= 50
    /\ \E p \in DistPaths : 10 * reqs.paths[p] > 7 * RequestsIn(reqs)
    /\ Cardinality(reqs.uas) < 5

\* The requests the detector has counted since it last rotated its window
WindowAttackPattern ==
    /\ detector.total_requests >= 50
    /\ \E p \in DistPaths :
           10 * detector.path_counts[p] > 7 * detector.total_requests
    /\ Cardinality(detector.ua_counts) < 5

C27_ScoreWhileAttackActive ==
    dist_last.op = "check" =>
        \A call \in dist_last.calls :
            call.attack_active
                => call.result.score_modifier =
                      IF call.result.is_new_ip THEN NewIpAttackScore
                      ELSE KnownIpAttackScore

(***************************************************************************)
(* HTTPS connection tasks up to the end of the TLS handshake               *)
(* (src/src/proxy/server.rs:164-260).  A task awaits the peek of the       *)
(* ClientHello, then the handshake under a 10 s timeout; the client decides *)
(* when it sends bytes, whether it completes the handshake, and when it    *)
(* closes.                                                                 *)
(***************************************************************************)
TlsConns == {1, 2}

\* bounds of the handshake model
MaxTlsNow == 20            \* last clock value, seconds
TlsTickSecs == 5           \* the clock advances in steps of this many seconds

\* tokio::time::timeout(Duration::from_secs(10), tls_acceptor.accept(stream))
HANDSHAKE_TIMEOUT_SECS == 10

NoConn == [pc |-> "none", accepted_at |-> 0, started_at |-> 0, sent |-> FALSE,
           result |-> "none"]

TlsInit ==
    /\ tls_now = 0
    /\ tls_conns = [c \in TlsConns |-> NoConn]

\* The deadline of the timeout around tls_acceptor.accept has come
HandshakeDeadline(conn, now) == now - conn.started_at >= HANDSHAKE_TIMEOUT_SECS

\* The accept loop spawns the task of an accepted connection; the task
\* starts at stream.peek(...).await
TlsAccept(c) ==
    /\ tls_conns[c].pc = "none"
    /\ tls_conns' = [tls_conns EXCEPT ![c] =
           [NoConn EXCEPT !.pc = "peek", !.accepted_at = tls_now]]
    /\ UNCHANGED tls_now
    /\ UNCHANGED NotTls

\* The client sends its first bytes
ClientSends(c) ==
    /\ tls_conns[c].pc = "peek"
    /\ ~tls_conns[c].sent
    /\ tls_conns' = [tls_conns EXCEPT ![c].sent = TRUE]
    /\ UNCHANGED tls_now
    /\ UNCHANGED NotTls

\* stream.peek returns with the bytes there are; the task goes on to the
\* handshake and its timeout starts
PeekReturns(c) ==
    /\ tls_conns[c].pc = "peek"
    /\ tls_conns[c].sent
    /\ tls_conns' = [tls_conns EXCEPT ![c].pc = "handshake", ![c].started_at = tls_now]
    /\ UNCHANGED tls_now
    /\ UNCHANGED NotTls

\* The client closes its side: peek returns 0 and accept fails, or accept
\* fails; Ok(Err(err)) => return Err
ClientCloses(c) ==
    /\ tls_conns[c].pc \in {"peek", "handshake"}
    /\ tls_conns' = [tls_conns EXCEPT ![c].pc = "closed",
                                      ![c].result = "TLS handshake failed"]
    /\ UNCHANGED tls_now
    /\ UNCHANGED NotTls

\* Ok(Ok(stream)): the handshake completes before the deadline
HandshakeCompletes(c) ==
    /\ tls_conns[c].pc = "handshake"
    /\ ~HandshakeDeadline(tls_conns[c], tls_now)
    /\ tls_conns' = [tls_conns EXCEPT ![c].pc = "established", ![c].result = "ok"]
    /\ UNCHANGED tls_now
    /\ UNCHANGED NotTls

\* Err(_): the timeout elapses; the task returns the error and the stream is
\* dropped
HandshakeTimeout(c) ==
    /\ tls_conns[c].pc = "handshake"
    /\ HandshakeDeadline(tls_conns[c], tls_now)
    /\ tls_conns' = [tls_conns EXCEPT ![c].pc = "closed",
                                      ![c].result = "TLS handshake timeout"]
    /\ UNCHANGED tls_now
    /\ UNCHANGED NotTls

\* Time passes; a timeout whose deadline has come fires before it does
TlsTick ==
    /\ tls_now + TlsTickSecs <= MaxTlsNow
    /\ \A c \in TlsConns :
          tls_conns[c].pc = "handshake" => ~HandshakeDeadline(tls_conns[c], tls_now)
    /\ tls_now' = tls_now + TlsTickSecs
    /\ UNCHANGED tls_conns
    /\ UNCHANGED NotTls

TlsNext ==
    \/ \E c \in TlsConns : TlsAccept(c)
    \/ \E c \in TlsConns : ClientSends(c)
    \/ \E c \in TlsConns : PeekReturns(c)
    \/ \E c \in TlsConns : ClientCloses(c)
    \/ \E c \in TlsConns : HandshakeCompletes(c)
    \/ \E c \in TlsConns : HandshakeTimeout(c)
    \/ TlsTick

\* C21: no client keeps an accepted connection open for more than 10 s
\* without completing the handshake: a connection whose handshake is not
\* complete is closed at the latest 10 s after it was accepted.
C21_HandshakeWithinTenSeconds ==
    \A c \in TlsConns :
        tls_conns[c].pc \in {"peek", "handshake"}
            => tls_now - tls_conns[c].accepted_at <= HANDSHAKE_TIMEOUT_SECS

(***************************************************************************)
(* The HTTP handler on the first request of a client                       *)
(* (src/src/proxy/http_handler.rs, src/src/protection/pipeline.rs,         *)
(* managed_rules.rs, header_analysis.rs, challenge.rs).                    *)
(* The client is not listed anywhere (no whitelist, block list, ban,       *)
(* custom rule, country or ASN entry), has no reputation, sends no JA3 and *)
(* is under every rate limit; the settings are the defaults.  The stages   *)
(* that look at the request itself are computed as the code computes them. *)
(***************************************************************************)
WebMethods == {"GET", "POST"}
WebPaths == {"/", "/login", "/api/users"}
BrowserAgent == "Mozilla/5.0 Gecko/20100101 Firefox/120.0"
AttackAgent == "sqlmap/1.7"
\* "" : the header is absent (or empty: the handler turns both into None)
UserAgents == {"", BrowserAgent, AttackAgent}
AcceptValues == {"", "text/html", "application/json"}
ContentTypes == {"", "application/x-www-form-urlencoded"}

\* The requests of the model; clearance: the Cookie header carries a valid
\* clearance cookie of the client
WebRequests ==
    [method : WebMethods, path : WebPaths, user_agent : UserAgents,
     accept : AcceptValues, accept_language : BOOLEAN,
     content_type : ContentTypes, clearance : BOOLEAN]

\* EndpointRateTracker::check on the first request of an ip for the prefix:
\* the entry is inserted as (0, now), the window has not elapsed, the count
\* becomes 1 and is compared with the limit
first_endpoint_check(limit) == 0 + 1 > limit

NoRule == [action |-> "None", score |-> 0, rule_id |-> 0]

\* ManagedRulesEngine::check: the first enabled rule that matches.  Rules
\* 1-4, 6-8, 11-16 and 20 match no request of the model (its paths, methods
\* and headers), rule 17 needs 1000 requests of one User-Agent, rule 19 is
\* disabled.
managed_rules_check(req) ==
    IF /\ req.path = "/login"                       \* path.starts_with("/login")
       /\ req.method \in {"POST", "GET"}
       /\ first_endpoint_check(5)
    THEN [action |-> "Challenge", score |-> 0, rule_id |-> 5]
    ELSE IF req.method \in {"POST", "PUT"} /\ req.content_type = ""
    THEN [action |-> "Score", score |-> 15, rule_id |-> 9]
    ELSE IF req.user_agent = "" /\ req.method = "POST"
    THEN [action |-> "Block", score |-> 0, rule_id |-> 10]
    ELSE NoRule

\* HeaderAnalyzer::is_browser_user_agent, detect_known_bot_ua
is_browser_user_agent(ua) == ua = BrowserAgent
is_attack_tool(ua) == ua = AttackAgent

\* HeaderAnalyzer::analyze: the score, clamped to 100, and whether a reason
\* is returned with it.  The requests of the model carry a Host header and
\* no HTTP/2 pseudo header, no oversized header and no Transfer-Encoding.
header_analyze(req) ==
    LET missing_ua == IF req.user_agent = "" THEN 10 ELSE 0
        browser == req.user_agent # "" /\ is_browser_user_agent(req.user_agent)
        no_accept == IF browser /\ req.accept = "" THEN 15 ELSE 0
        no_language == IF browser /\ ~req.accept_language THEN 15 ELSE 0
        attack == IF req.user_agent # "" /\ is_attack_tool(req.user_agent) THEN 40 ELSE 0
        score == missing_ua + no_accept + no_language + attack
        clamped == Min(score, 100)
    IN  [score |-> clamped,
         reason |-> IF (missing_ua > 0 \/ attack > 0) /\ clamped >= 15
                    THEN "HeaderAnomaly" ELSE "none"]

\* PipelineResult of process
PipelineResult(action, reason, score, html) ==
    [action |-> action, reason |-> reason, score |-> score, challenge_html |-> html]

\* ProtectionPipeline::process on a first request at the protection level
\* `level`: the managed rules, the header analysis and the challenge
\* decision; every other stage finds nothing and adds nothing
process_first(req, level) ==
    LET rule == managed_rules_check(req)
        rule_score == CASE rule.action = "Challenge" -> 80
                        [] rule.action = "Score" -> rule.score
                        [] OTHER -> 0
        header == header_analyze(req)
        cumulative_score == rule_score + header.score
    IN  IF rule.action = "Block"
        THEN PipelineResult("Block", "ManagedRule", 100, FALSE)
        ELSE IF header.reason # "none" /\ header.score >= 80
        THEN PipelineResult("Block", header.reason, cumulative_score, FALSE)
        ELSE IF cumulative_score > challenge_threshold(level)
        THEN IF req.clearance
             THEN PipelineResult("Pass", "none", cumulative_score, FALSE)
             ELSE PipelineResult("Challenge", "ChallengeRequired", cumulative_score, TRUE)
        ELSE PipelineResult("Pass", "none", cumulative_score, FALSE)

\* is_api_request: by path, Accept, Content-Type or User-Agent
is_api_request(req) ==
    \/ req.path = "/api/users"                      \* p.starts_with("/api/")
    \/ req.accept = "application/json"              \* json and not text/html
    \/ req.content_type = "application/json"

Response(status, body) ==
    [status |-> status, body |-> body, set_cookie |-> FALSE, location |-> ""]

\* a Challenge verdict answered as a Block verdict is
ChallengeAsForbidden(req, result) ==
    IF is_api_request(req) THEN Response(403, "json") ELSE Response(403, "denied_html")

\* HttpHandler::handle, the arm of ThreatAction::Challenge
challenge_response(req, result) ==
    IF is_api_request(req) THEN Response(403, "json")
    ELSE IF result.challenge_html THEN Response(200, "challenge_html")
    ELSE Response(403, "Forbidden")

\* HttpHandler::handle, "Act on pipeline result": the response to the
\* client.  A passed request is answered by the upstream.
act_on_result(req, result) ==
    CASE result.action = "Pass" -> Response(200, "upstream")
      [] result.action = "Challenge" -> challenge_response(req, result)
      [] result.action = "Block" ->
            IF is_api_request(req) THEN Response(403, "json")
            ELSE Response(403, "denied_html")
      [] OTHER -> Response(403, "denied_html")      \* Tarpit, after the sleep

(***************************************************************************)
(* The verification endpoint /__fortress/verify                            *)
(* (src/src/proxy/http_handler.rs:346-431).  A query value is a sequence   *)
(* of characters; the u32 the handler parses hl into is kept as its        *)
(* decimal digits, most significant first and without leading zeros.       *)
(***************************************************************************)
DigitChars == <<"0", "1", "2", "3", "4", "5", "6", "7", "8", "9">>
IsDigit(ch) == \E d \in 1..10 : DigitChars[d] = ch
DigitValue(ch) == (CHOOSE d \in 1..10 : DigitChars[d] = ch) - 1

RECURSIVE StripZeros(_)
StripZeros(digits) ==
    IF digits # <<>> /\ Head(digits) = 0 THEN StripZeros(Tail(digits)) ELSE digits

\* a < b for two numbers given by their digits
RECURSIVE DecimalLess(_, _)
DecimalLess(a, b) ==
    IF Len(a) # Len(b) THEN Len(a) < Len(b)
    ELSE IF a = <<>> THEN FALSE
    ELSE IF Head(a) # Head(b) THEN Head(a) < Head(b)
    ELSE DecimalLess(Tail(a), Tail(b))

\* u32::MAX, 4294967295
U32MaxDigits == <<4, 2, 9, 4, 9, 6, 7, 2, 9, 5>>
\* the headless score from which the handler rejects, 40
HeadlessLimit == <<4, 0>>

\* str::parse::<u32>: an optional '+', then one or more ASCII digits, and
\* the number has to fit 32 bits
parse_u32(val) ==
    LET body == IF val # <<>> /\ Head(val) = "+" THEN Tail(val) ELSE val
    IN  IF body = <<>> \/ \E i \in 1..Len(body) : ~IsDigit(body[i])
        THEN [ok |-> FALSE, value |-> <<>>]
        ELSE LET digits == StripZeros([i \in 1..Len(body) |-> DigitValue(body[i])])
             IN  IF DecimalLess(U32MaxDigits, digits)
                 THEN [ok |-> FALSE, value |-> <<>>]
                 ELSE [ok |-> TRUE, value |-> digits]

\* the query has no hl parameter
NoHl == <<"absent">>

\* val.parse::<u32>().unwrap_or(0); without an hl parameter hl_score stays 0
hl_score_of(hl) ==
    IF hl = NoHl THEN <<>>
    ELSE LET parsed == parse_u32(hl) IN IF parsed.ok THEN parsed.value ELSE <<>>

\* the hl values of the model
HlValues ==
    { <<>>, <<"0">>, <<"3", "9">>, <<"4", "0">>, <<"0", "4", "1">>, <<"1", "0", "0">>,
      <<"+", "4", "0">>, <<"-", "1">>, <<"x">>,
      <<"4", "2", "9", "4", "9", "6", "7", "2", "9", "5">>,
      <<"4", "2", "9", "4", "9", "6", "7", "2", "9", "6">>,
      <<"0", "0", "4", "2", "9", "4", "9", "6", "7", "3", "0", "0">> }

\* The queries of the model.  "n16" stands for a nonce the client has found
\* for its challenge that gives SHA-256 of challenge:nonce 16 leading zero
\* bits, "n8" for one that gives only 8.
VerifyQueries ==
    [challenge : {"absent", "", "c1"}, nonce : {"absent", "n16", "n8"},
     hl : HlValues \cup {NoHl}, redirect : {"absent", "/login", "//evil.example"}]

leading_zero_bits(challenge, nonce) ==
    IF challenge \notin {"absent", ""} /\ nonce = "n16" THEN 16
    ELSE IF nonce = "n8" THEN 8 ELSE 0

\* ChallengeSystem::verify_solution
verify_solution(challenge, nonce) == leading_zero_bits(challenge, nonce) >= 16

\* hl_score >= 40
headless_detected(hl_score) == ~DecimalLess(hl_score, HeadlessLimit)

\* HttpHandler::handle_challenge_verification
handle_challenge_verification(query) ==
    LET hl_score == hl_score_of(query.hl)
        redirect == IF query.redirect = "absent" THEN "/" ELSE query.redirect
        safe_redirect == IF redirect \in {"/", "/login"} THEN redirect ELSE "/"
    IN  IF query.challenge \in {"absent", ""} THEN Response(400, "Missing challenge")
        ELSE IF query.nonce = "absent" THEN Response(400, "Missing nonce")
        ELSE IF ~verify_solution(query.challenge, query.nonce)
        THEN Response(403, "Verification failed")
        ELSE IF headless_detected(hl_score) THEN Response(403, "Verification failed")
        ELSE [status |-> 302, body |-> "Redirecting...", set_cookie |-> TRUE,
              location |-> safe_redirect]

\* HttpHandler::handle on a request for /__fortress/verify
VerifyRequest(query) ==
    /\ web_last.pc = "idle"
    /\ web_last' = [pc |-> "answered", op |-> "verify", req |-> query,
                    level |-> current_level, result |-> "none",
                    response |-> handle_challenge_verification(query)]
    /\ UNCHANGED NotWeb

\* the hl value of a query is a whole number, 40 or more
HlFortyOrMore(hl) ==
    /\ hl # NoHl
    /\ hl # <<>>
    /\ \A i \in 1..Len(hl) : IsDigit(hl[i])
    /\ ~DecimalLess(StripZeros([i \in 1..Len(hl) |-> DigitValue(hl[i])]), HeadlessLimit)

\* C23: the verify endpoint issues a clearance cookie only when the PoW
\* solution verifies and the supplied headless score hl is below 40; every
\* request whose hl value is 40 or more is rejected without a cookie.
C23_CookieOnlyBelowForty ==
    web_last.op = "verify" =>
        LET query == web_last.req
        IN  /\ web_last.response.set_cookie
                  => /\ verify_solution(query.challenge, query.nonce)
                     /\ ~HlFortyOrMore(query.hl)
            /\ HlFortyOrMore(query.hl)
                  => /\ ~web_last.response.set_cookie
                     /\ web_last.response.status \in {400, 403}

NoWebCall ==
    [pc |-> "idle", op |-> "none", req |-> "none", level |-> 0,
     result |-> "none", response |-> "none"]

WebInit ==
    /\ web_last = NoWebCall

\* HttpHandler::handle on a request that is not for an internal endpoint:
\* the pipeline at the engine's level, then the response
HandleRequest(req) ==
    /\ web_last.pc = "idle"
    /\ LET result == process_first(req, current_level)
       IN  web_last' = [pc |-> "answered", op |-> "handle", req |-> req,
                        level |-> current_level, result |-> result,
                        response |-> act_on_result(req, result)]
    /\ UNCHANGED NotWeb

\* the response has gone to the client
ResponseSent ==
    /\ web_last.pc = "answered"
    /\ web_last' = NoWebCall
    /\ UNCHANGED NotWeb

WebNext ==
    \/ \E req \in WebRequests : HandleRequest(req)
    \/ \E query \in VerifyQueries : VerifyRequest(query)
    \/ ResponseSent
    \/ \E level \in Levels : web_last.pc = "idle" /\ SetLevel(level)

\* the request of the claim: POST /login with no User-Agent and no cookie
LoginWithoutAgent(req) ==
    /\ req.method = "POST"
    /\ req.path = "/login"
    /\ req.user_agent = ""
    /\ ~req.clearance

\* C22: at level L0 with default settings and no clearance cookie, a first
\* POST /login that carries no User-Agent is answered with a Challenge:
\* 200 with the HTML challenge page.
C22_LoginWithoutAgentChallenged ==
    (/\ web_last.op = "handle"
     /\ web_last.level = 0
     /\ LoginWithoutAgent(web_last.req))
        => /\ web_last.result.action = "Challenge"
           /\ web_last.response = Response(200, "challenge_html")

\* C24 as stated: every Challenge verdict is rendered as a 200 OK response
\* carrying the HTML challenge page, and every Block verdict as a 403
\* response.
C24_VerdictsRendered ==
    web_last.op = "handle" =>
        /\ web_last.result.action = "Challenge"
              => web_last.response = Response(200, "challenge_html")
        /\ web_last.result.action = "Block" => web_last.response.status = 403

\* C24, amended: a Challenge verdict is rendered as 200 OK with the HTML
\* challenge page unless the request is an API request, for which it is a
\* 403 with a JSON body; every Block verdict is rendered as a 403.
C24_VerdictsRenderedUnlessApi ==
    web_last.op = "handle" =>
        /\ (web_last.result.action = "Challenge" /\ ~is_api_request(web_last.req))
              => web_last.response = Response(200, "challenge_html")
        /\ (web_last.result.action = "Challenge" /\ is_api_request(web_last.req))
              => web_last.response = Response(403, "json")
        /\ web_last.result.action = "Block" => web_last.response.status = 403

\* A browser request without Accept headers was challenged at L3 and got
\* the challenge page
C24_Witness ==
    /\ web_last.op = "handle"
    /\ web_last.result.action = "Challenge"
    /\ ~is_api_request(web_last.req)
    /\ web_last.req.user_agent = BrowserAgent
    /\ web_last.level = 3
    /\ web_last.response = Response(200, "challenge_html")

(***************************************************************************)
(* The subnet windows of the rate limiter                                  *)
(* (src/src/storage/memory.rs:123-140, 208-259;                            *)
(* src/src/protection/pipeline.rs:277-290).  An IPv4 address is its four   *)
(* octets, an IPv6 address its eight groups; the u32 key of a subnet is    *)
(* kept as its four bytes, most significant first.                         *)
(***************************************************************************)
V4(a, b, c, d) == [v |-> 4, parts |-> <<a, b, c, d>>]
V6(a, b, c, d) == [v |-> 6, parts |-> <<a, b, c, 0, 0, 0, 0, d>>]

\* The clients of the model: two in 10.0.0.0/24 and one in 10.0.1.0/24, two
\* in 2001:db8:1::/48 and one in 2001:db8:2::/48
SubnetIps ==
    { V4(10, 0, 0, 1), V4(10, 0, 0, 2), V4(10, 0, 1, 1),
      V6(8193, 3512, 1, 1), V6(8193, 3512, 1, 2), V6(8193, 3512, 2, 1) }

\* bounds of the subnet model
MaxSubnetRequests == 3     \* requests recorded within one second
subnet_per_second == 2     \* RateLimitConfig.subnet_per_second of the model

\* default_ipv4_subnet_mask
ipv4_subnet_mask == 24

RECURSIVE Pow2(_)
Pow2(n) == IF n = 0 THEN 1 ELSE 2 * Pow2(n - 1)

\* byte i (1..4) of ip_u32 & mask for a mask of mask_bits leading ones
masked_byte(byte, i, mask_bits) ==
    LET kept == Max(0, Min(8, mask_bits - 8 * (i - 1)))
    IN  (byte \div Pow2(8 - kept)) * Pow2(8 - kept)

\* ip_to_subnet
ip_to_subnet(ip, mask_bits) ==
    IF ip.v = 4
    THEN [i \in 1..4 |-> masked_byte(ip.parts[i], i, Min(mask_bits, 32))]
    ELSE <<0, 0, 0, 0>>

SubnetKeys == {ip_to_subnet(ip, ipv4_subnet_mask) : ip \in SubnetIps}

SubInit ==
    /\ subnet_requests = [k \in SubnetKeys |-> 0]
    /\ subnet_log = <<>>

\* MemoryStore::check_rate_limit, the subnet tier
subnet_limit_exceeded(requests, subnet) == requests[subnet] > subnet_per_second

\* process, from `let subnet = ip_to_subnet(...)` to the rate limiter:
\* record_request counts the request in the window of its key, and the
\* limiter compares the window with the limit
RecordRequest(ip) ==
    /\ Len(subnet_log) < MaxSubnetRequests
    /\ LET subnet == ip_to_subnet(ip, ipv4_subnet_mask)
           requests == [subnet_requests EXCEPT ![subnet] = @ + 1]
       IN  /\ subnet_requests' = requests
           /\ subnet_log' = Append(subnet_log,
                  [ip |-> ip, subnet |-> subnet,
                   limited |-> subnet_limit_exceeded(requests, subnet)])
    /\ UNCHANGED NotSub

\* A second passes: the windows count none of the requests any more
SubnetSecondPasses ==
    /\ subnet_log # <<>>
    /\ subnet_requests' = [k \in SubnetKeys |-> 0]
    /\ subnet_log' = <<>>
    /\ UNCHANGED NotSub

SubNext ==
    \/ \E ip \in SubnetIps : RecordRequest(ip)
    \/ SubnetSecondPasses

\* The subnet of an address: the configured-mask prefix of an IPv4 address,
\* the /48 prefix (three groups) of an IPv6 address
OwnSubnet(ip) ==
    IF ip.v = 4
    THEN <<4, [i \in 1..4 |-> masked_byte(ip.parts[i], i, ipv4_subnet_mask)]>>
    ELSE <<6, SubSeq(ip.parts, 1, 3)>>

\* the requests of the log up to the n-th that come from the subnet
FromSubnet(subnet, n) ==
    Cardinality({j \in 1..n : OwnSubnet(subnet_log[j].ip) = subnet})

\* C25: each request is counted in the subnet window of its own subnet (the
\* configured-mask prefix for IPv4, the /48 prefix for IPv6): clients in
\* different subnets never share a subnet counter or a subnet rate limit.
C25_OwnSubnetWindow ==
    \A i \in 1..Len(subnet_log) :
        LET r == subnet_log[i]
        IN  /\ subnet_requests[r.subnet] = FromSubnet(OwnSubnet(r.ip), Len(subnet_log))
            /\ r.limited <=> FromSubnet(OwnSubnet(r.ip), i) > subnet_per_second
            /\ \A j \in 1..Len(subnet_log) :
                  OwnSubnet(subnet_log[j].ip) # OwnSubnet(r.ip)
                      => subnet_log[j].subnet # r.subnet

(***************************************************************************)
(* Slowloris detector  (src/src/protection/slowloris.rs)                   *)
(* slow_open counts, per ip, the connections that are open now: `slow`     *)
(* those whose headers are not complete, `done` those whose headers are.   *)
(***************************************************************************)
SlowIps == {"198.51.100.1"}

\* bounds of the slowloris model
MaxTracked == 5            \* cap of slow_conn_count and of the open connections
SlowTickSecs == 160        \* the clock advances in steps of this many seconds
MaxSlowNow == 320          \* last clock value, seconds
FewBytes == 1000           \* bytes of a request that is still incomplete
ManyBytes == 2000          \* bytes of a complete request

\* program constants
MAX_SLOW_CONNECTIONS_PER_IP == 5
SLOWLORIS_TIMEOUT_SECS == 30
SLOWLORIS_MIN_BYTES == 1024
STALE_CONNECTION_SECS == 300

NoSlowInfo ==
    [present |-> FALSE, started |-> 0, bytes_received |-> 0,
     header_complete |-> FALSE, last_activity |-> 0]

SlowInit ==
    /\ slow_now = 0
    /\ slow_connections = [ip \in SlowIps |-> NoSlowInfo]
    /\ slow_conn_count = [ip \in SlowIps |-> 0]
    /\ slow_open = [ip \in SlowIps |-> [slow |-> 0, done |-> 0]]
    /\ slow_last = [op |-> "new", ip |-> "none", ret |-> FALSE, too_many |-> FALSE,
                    open_slow |-> 0]

\* track_connection: the counter of the ip goes up, the entry of the ip is
\* replaced
track_connection(ip) ==
    [count |-> [slow_conn_count EXCEPT ![ip] = @ + 1],
     conns |-> [slow_connections EXCEPT ![ip] =
                   [present |-> TRUE, started |-> slow_now, bytes_received |-> 0,
                    header_complete |-> FALSE, last_activity |-> slow_now]]]

\* update_progress
update_progress(ip, bytes, header_done) ==
    IF slow_connections[ip].present
    THEN [slow_connections EXCEPT ![ip].bytes_received = @ + bytes,
                                  ![ip].header_complete = header_done,
                                  ![ip].last_activity = slow_now]
    ELSE slow_connections

\* is_slowloris, the first check: too many concurrent slow connections
too_many_slow(ip) == slow_conn_count[ip] >= MAX_SLOW_CONNECTIONS_PER_IP

\* is_slowloris.  bytes_per_sec < 10.0 is bytes < 10 * elapsed
is_slowloris(ip) ==
    LET info == slow_connections[ip]
        elapsed == slow_now - info.started
        idle_time == slow_now - info.last_activity
    IN  IF too_many_slow(ip) THEN TRUE
        ELSE IF ~info.present THEN FALSE
        ELSE \/ /\ ~info.header_complete
                /\ elapsed > SLOWLORIS_TIMEOUT_SECS
                /\ info.bytes_received < SLOWLORIS_MIN_BYTES
             \/ /\ elapsed > SLOWLORIS_TIMEOUT_SECS
                /\ info.bytes_received < 10 * elapsed
                /\ ~info.header_complete
             \/ /\ idle_time > SLOWLORIS_TIMEOUT_SECS
                /\ ~info.header_complete

\* cleanup: whether the entry of an ip is removed
slow_entry_removed(info) ==
    /\ info.present
    /\ \/ slow_now - info.started > STALE_CONNECTION_SECS
       \/ slow_now - info.last_activity > STALE_CONNECTION_SECS
       \/ info.header_complete /\ info.bytes_received > SLOWLORIS_MIN_BYTES

\* the accept loop accepts a connection: slowloris.track_connection(peer_ip)
TrackConnection(ip) ==
    /\ slow_conn_count[ip] < MaxTracked
    /\ slow_open[ip].slow + slow_open[ip].done < MaxTracked
    /\ LET t == track_connection(ip)
       IN  /\ slow_conn_count' = t.count
           /\ slow_connections' = t.conns
    /\ slow_open' = [slow_open EXCEPT ![ip].slow = @ + 1]
    /\ UNCHANGED <<slow_now, slow_last>>
    /\ UNCHANGED NotSlow

\* data arrives on a connection of the ip whose headers are incomplete, and
\* its progress is reported: update_progress(ip, bytes, header_done)
UpdateProgress(ip, header_done) ==
    /\ slow_open[ip].slow > 0
    /\ LET bytes == IF header_done THEN ManyBytes ELSE FewBytes
       IN  /\ slow_connections[ip].bytes_received + bytes <= ManyBytes
           /\ slow_connections' = update_progress(ip, bytes, header_done)
    /\ slow_open' = IF header_done
                    THEN [slow_open EXCEPT ![ip].slow = @ - 1, ![ip].done = @ + 1]
                    ELSE slow_open
    /\ UNCHANGED <<slow_now, slow_conn_count, slow_last>>
    /\ UNCHANGED NotSlow

\* a connection of the ip is closed; the connection task tells the detector
\* nothing
SlowConnCloses(ip, kind) ==
    /\ slow_open[ip][kind] > 0
    /\ slow_open' = [slow_open EXCEPT ![ip][kind] = @ - 1]
    /\ UNCHANGED <<slow_now, slow_connections, slow_conn_count, slow_last>>
    /\ UNCHANGED NotSlow

\* is_slowloris(ip) is called
IsSlowloris(ip) ==
    /\ slow_last' = [op |-> "is_slowloris", ip |-> ip, ret |-> is_slowloris(ip),
                     too_many |-> too_many_slow(ip),
                     open_slow |-> slow_open[ip].slow]
    /\ UNCHANGED <<slow_now, slow_connections, slow_conn_count, slow_open>>
    /\ UNCHANGED NotSlow

\* cleanup: the entries that are stale or complete are removed, each taking
\* one off the counter of its ip
SlowCleanup ==
    /\ slow_connections' =
          [ip \in SlowIps |-> IF slow_entry_removed(slow_connections[ip])
                              THEN NoSlowInfo ELSE slow_connections[ip]]
    /\ slow_conn_count' =
          [ip \in SlowIps |-> IF slow_entry_removed(slow_connections[ip])
                              THEN Max(0, slow_conn_count[ip] - 1)
                              ELSE slow_conn_count[ip]]
    /\ slow_last' = [op |-> "cleanup", ip |-> "none", ret |-> FALSE, too_many |-> FALSE,
                     open_slow |-> 0]
    /\ UNCHANGED <<slow_now, slow_open>>
    /\ UNCHANGED NotSlow

SlowTick ==
    /\ slow_now + SlowTickSecs <= MaxSlowNow
    /\ slow_now' = slow_now + SlowTickSecs
    /\ UNCHANGED <<slow_connections, slow_conn_count, slow_open, slow_last>>
    /\ UNCHANGED NotSlow

SlowNext ==
    \/ \E ip \in SlowIps : TrackConnection(ip)
    \/ \E ip \in SlowIps, header_done \in BOOLEAN : UpdateProgress(ip, header_done)
    \/ \E ip \in SlowIps, kind \in {"slow", "done"} : SlowConnCloses(ip, kind)
    \/ \E ip \in SlowIps : IsSlowloris(ip)
    \/ SlowCleanup
    \/ SlowTick

\* C26: is_slowloris(ip) reports too many concurrent slow connections only
\* while that ip has at least 5 connections that are open and slow at that
\* moment; connections that completed their headers or were closed do not
\* count.
C26_TooManyOnlyWhileOpenAndSlow ==
    (slow_last.op = "is_slowloris" /\ slow_last.too_many)
        => slow_last.open_slow >= MAX_SLOW_CONNECTIONS_PER_IP

(***************************************************************************)
(* The per-IP connection rate limit of check_connection                    *)
(* (src/src/protection/l4_tracker.rs:52-91), with the clock advancing in   *)
(* fractions of a second between the calls.  The observer keeps the time   *)
(* of every Allow, apart from recent_connects.                             *)
(***************************************************************************)
\* bounds
MaxRateNow == 5            \* last clock value, clock ticks
MaxRateAllows == 3         \* Allow decisions recorded per IP

\* the peers whose connection attempts are followed
RateIps == {"10.0.0.1"}

NoRateCall == [op |-> "none", ip |-> "none", action |-> "none",
               allowed_before |-> 0, concurrent_before |-> 0, appended |-> FALSE]

RateInit ==
    /\ l4_rate_log = [allowed |-> [ip \in L4Ips |-> <<>>], last |-> NoRateCall]

\* number of the recorded times later than `after` and not later than `upto`
AllowsWithin(times, after, upto) ==
    Cardinality({i \in DOMAIN times : times[i] > after /\ times[i] <= upto})

\* how many times `t` is in the list
Occurrences(list, t) == Cardinality({i \in DOMAIN list : list[i] = t})

\* check_connection called for a connection attempt of ip
RateCheck(ip) ==
    /\ Len(l4_rate_log.allowed[ip]) < MaxRateAllows
    /\ LET r == CheckConnection(ip_states, ip, l4_now)
           before == ip_states[ip].recent_connects
           after == r.states[ip].recent_connects
       IN  /\ ip_states' = r.states
           /\ l4_totals' = BumpTotal(l4_totals,
                  IF r.action = "Allow" THEN "allowed"
                  ELSE IF r.action = "Drop" THEN "dropped" ELSE "tarpitted")
           /\ l4_rate_log' =
                  [allowed |-> IF r.action = "Allow"
                               THEN [l4_rate_log.allowed EXCEPT ![ip] = Append(@, l4_now)]
                               ELSE l4_rate_log.allowed,
                   last |-> [op |-> "check", ip |-> ip, action |-> r.action,
                             allowed_before |->
                                 AllowsWithin(l4_rate_log.allowed[ip],
                                              l4_now - L4TicksPerSec, l4_now),
                             concurrent_before |-> ip_states[ip].concurrent,
                             appended |-> Occurrences(after, l4_now)
                                              > Occurrences(before, l4_now)]]
    /\ UNCHANGED <<l4_now, conn_tasks>>
    /\ UNCHANGED NotL4Rate

\* unregister_connection called for ip, as one step
UnregisterCall(ip) ==
    /\ ip_states[ip].concurrent > 0
    /\ ip_states' = UnregisterConnection(ip_states, ip)
    /\ UNCHANGED <<l4_now, l4_totals, conn_tasks>>
    /\ UNCHANGED NotL4

\* the clock advances by one tick
RateTick ==
    /\ l4_now < MaxRateNow
    /\ l4_now' = l4_now + 1
    /\ UNCHANGED <<ip_states, l4_totals, conn_tasks>>
    /\ UNCHANGED NotL4

L4RateNext ==
    \/ \E ip \in RateIps : RateCheck(ip)
    \/ \E ip \in RateIps : RegisterCall(ip)
    \/ \E ip \in RateIps : UnregisterCall(ip)
    \/ L4Cleanup
    \/ RateTick

\* C28: of the connection attempts of one IP, check_connection allows at most
\* connection_rate_per_ip_per_sec within any span of one second; an attempt
\* made when that many were allowed in the last second gets Tarpit if
\* tarpit_enabled and Drop otherwise (Drop also when the concurrency limit
\* refuses it first), and is not appended to recent_connects.
C28_AllowsPerSecondBounded ==
    /\ \A ip \in L4Ips :
          LET times == l4_rate_log.allowed[ip]
          IN  \A i \in DOMAIN times :
                  AllowsWithin(times, times[i] - L4TicksPerSec, times[i])
                      <= connection_rate_per_ip_per_sec
    /\ LET last == l4_rate_log.last
       IN  (last.op = "check" /\ last.allowed_before >= connection_rate_per_ip_per_sec)
           => /\ last.action =
                     IF last.concurrent_before >= max_concurrent_per_ip THEN "Drop"
                     ELSE IF tarpit_enabled THEN "Tarpit" ELSE "Drop"
              /\ ~last.appended

\* An IP was allowed twice within a second, its third attempt in that second
\* was tarpitted and left out of recent_connects, and it was allowed again
\* once the second had passed
C28_Witness ==
    \E ip \in L4Ips :
        LET times == l4_rate_log.allowed[ip]
        IN  /\ Len(times) >= 3
            /\ times[2] - times[1] < L4TicksPerSec
            /\ times[3] - times[1] >= L4TicksPerSec
            /\ l4_totals.tarpitted >= 1
            /\ ip_states[ip].recent_connects = <<times[3]>>

(***************************************************************************)
(* ASN classifier  (src/src/protection/asn.rs), with the ASN sets that     *)
(* AsnClassifier::new populates                                            *)
(***************************************************************************)
datacenter_asns ==
    {14618, 16509, 7224, 8987, 38895, 15169, 396982, 36040, 8075, 8068, 3598,
     14061, 393406, 202018, 24940, 213230, 16276, 35540, 20473, 63949, 31898,
     36351, 45102, 37963, 45090, 132203, 13335, 54113, 20940, 16625, 12876,
     51167, 47583, 26496, 26347, 33070, 19994, 202053, 36007, 60781, 28753,
     54290, 197540, 40676, 8100, 36352, 53667, 8560, 59642, 209102, 21859}

residential_proxy_asns ==
    {9009, 202425, 62240, 208258, 44724, 62282, 47764, 200019, 399486, 210037,
     46844, 211298, 35916}

vpn_asns ==
    {212238, 209854, 198093, 55286, 209611, 209641, 206264, 33438, 204957,
     394536}

mobile_carrier_asns ==
    {9121, 15897, 47331, 34984, 7018, 22394, 21928, 12576, 25135, 23415, 31334,
     16232, 55836, 45609, 24560, 26599, 28573, 17974, 25159, 17676, 3786, 6167}

\* ASNs in none of the sets
UnlistedAsns == {0, 64512, 99999}

AsnSamples ==
    datacenter_asns \cup residential_proxy_asns \cup vpn_asns
        \cup mobile_carrier_asns \cup UnlistedAsns

\* AsnClassifier::classify
classify(asn) ==
    IF asn \in residential_proxy_asns THEN "ResidentialProxy"
    ELSE IF asn \in vpn_asns THEN "VPN"
    ELSE IF asn \in datacenter_asns THEN "Datacenter"
    ELSE IF asn \in mobile_carrier_asns THEN "MobileCarrier"
    ELSE "Unknown"

\* AsnClassifier::is_suspicious
is_suspicious(asn) == asn \in residential_proxy_asns

AsnInit ==
    /\ asn_last = [op |-> "new", asn |-> 0, type |-> "none", ret |-> FALSE]

\* classify(asn) is called
Classify(asn) ==
    /\ asn_last' = [op |-> "classify", asn |-> asn, type |-> classify(asn),
                    ret |-> FALSE]
    /\ UNCHANGED NotAsn

\* is_suspicious(asn) is called
IsSuspicious(asn) ==
    /\ asn_last' = [op |-> "is_suspicious", asn |-> asn, type |-> "none",
                    ret |-> is_suspicious(asn)]
    /\ UNCHANGED NotAsn

AsnNext ==
    \/ \E asn \in AsnSamples : Classify(asn)
    \/ \E asn \in AsnSamples : IsSuspicious(asn)

\* C30: is_suspicious(asn) is true for every ASN that classify gives as
\* Datacenter or as ResidentialProxy, and false for an ASN it gives as
\* Unknown.
C30_SuspiciousMatchesClass ==
    asn_last.op = "is_suspicious" =>
        /\ classify(asn_last.asn) \in {"Datacenter", "ResidentialProxy"} => asn_last.ret
        /\ classify(asn_last.asn) = "Unknown" => ~asn_last.ret

(***************************************************************************)
(* The reporter feeding the collector's numbers to the escalation engine   *)
(* every 5 s  (src/src/analytics/reporter.rs:82-87,                        *)
(* src/src/analytics/collector.rs:170-206), over a period of traffic that   *)
(* turns quiet at some moment and stays quiet.                             *)
(***************************************************************************)
\* bounds
QuietStartMax == 30        \* the traffic turns quiet at this time at the latest, seconds
MaxQuietNow == 120         \* last clock value, seconds

\* The traffic of one escalation interval: the requests of its last second,
\* the requests and the blocked requests of the whole interval
QuietTraffic == [kind |-> "quiet", rps |-> 10, requests |-> 50, blocked |-> 0]
AttackTraffic == [kind |-> "attack", rps |-> 200000, requests |-> 1000000,
                  blocked |-> 400000]
TrafficKinds == {QuietTraffic, AttackTraffic}

ColInit ==
    /\ total_requests = 0
    /\ total_blocked = 0
    /\ current_rps = 0
    /\ traffic_quiet = FALSE

\* evaluate_escalation: the arguments of escalation.evaluate:
\* collector.get_current_rps(), snapshot.total_blocked, snapshot.total_requests
reporter_sample == [rps |-> current_rps, blocked |-> total_blocked,
                    total |-> total_requests]

\* Reporter::evaluate_escalation: one firing of the escalation interval
ReporterEvaluate == Evaluate(reporter_sample)

\* One escalation interval of traffic goes by: MetricsCollector::record_request
\* for each request, MetricsCollector::tick every second
TrafficInterval(tr) ==
    /\ ~eval_due
    /\ esc_now + escalation_interval_secs <= MaxQuietNow
    /\ traffic_quiet => tr.kind = "quiet"
    /\ esc_now' = esc_now + escalation_interval_secs
    /\ eval_due' = TRUE
    /\ total_requests' = total_requests + tr.requests
    /\ total_blocked' = total_blocked + tr.blocked
    /\ current_rps' = tr.rps
    /\ UNCHANGED traffic_quiet
    /\ UNCHANGED <<current_level, last_escalation, last_deescalation,
                   escalation_counter, deescalation_counter,
                   sustained_checks_required, esc_log>>
    /\ UNCHANGED NotQuiet

\* From now on the traffic stays quiet
QuietBegins ==
    /\ ~traffic_quiet
    /\ ~eval_due
    /\ current_rps = QuietTraffic.rps
    /\ traffic_quiet' = TRUE
    /\ UNCHANGED <<total_requests, total_blocked, current_rps>>
    /\ UNCHANGED escvars
    /\ UNCHANGED NotQuiet

\* the traffic has to turn quiet by QuietStartMax
QuietInTime == traffic_quiet \/ esc_now < QuietStartMax

QuietNext ==
    \/ ReporterEvaluate
    \/ \E tr \in TrafficKinds : TrafficInterval(tr) /\ QuietInTime'
    \/ QuietBegins
    \/ \E level \in Levels : ~traffic_quiet /\ SetLevel(level)

\* C32: if from some point on the traffic stays quiet (RPS below half of the
\* threshold of the current level, no further request blocked), the engine as
\* driven by the reporter eventually brings the level back to L0.
C32_QuietLeadsToL0 ==
    traffic_quiet ~> (current_level = 0)

(***************************************************************************)
(* Challenge pages and the verify endpoint                                 *)
(* (src/src/protection/challenge.rs:167-218,                               *)
(* src/src/proxy/http_handler.rs:346-431).  The server keeps no record of  *)
(* the challenges it issues; the observer does.                            *)
(***************************************************************************)
\* timestamp:random_hex as generate_challenge_page makes them
ServerChallenges == {"1700000000:a3f1", "1700000005:09bc"}
\* a challenge a client made up
ClientChallenges == {"x"}

\* bound
MaxCookies == 2            \* cap of the observer's cookie counts

ExchangeQueries ==
    [challenge : ServerChallenges \cup ClientChallenges, nonce : {"n16", "n8"},
     hl : {NoHl}, redirect : {"absent"}]

ExchangeInit ==
    /\ page_challenges = {}
    /\ cookies_for = [c \in ServerChallenges \cup ClientChallenges |-> 0]

\* ChallengeSystem::generate_challenge_page for a request answered Challenge
ChallengePage(c) ==
    /\ c \notin page_challenges
    /\ page_challenges' = page_challenges \cup {c}
    /\ UNCHANGED cookies_for
    /\ UNCHANGED NotExchange

\* A client calls /__fortress/verify with a query of its choice
ExchangeVerify(query) ==
    /\ LET response == handle_challenge_verification(query)
       IN  cookies_for' =
               IF response.set_cookie
               THEN [cookies_for EXCEPT ![query.challenge] = Min(@ + 1, MaxCookies)]
               ELSE cookies_for
    /\ UNCHANGED page_challenges
    /\ UNCHANGED NotExchange

ExchangeNext ==
    \/ \E c \in ServerChallenges : ChallengePage(c)
    \/ \E query \in ExchangeQueries : ExchangeVerify(query)

\* C33: the verify endpoint issues a clearance cookie only against a
\* challenge that the server itself issued in a challenge page and that has
\* not been redeemed before: no cookie for a challenge made up by a client,
\* and at most one cookie per issued challenge.
C33_CookieOnlyForOwnUnredeemedChallenge ==
    \A c \in ServerChallenges \cup ClientChallenges :
        /\ cookies_for[c] > 0 => c \in page_challenges
        /\ cookies_for[c] <= 1

(***************************************************************************)
(* AutoBanManager::record_block called by several threads at once          *)
(* (src/src/protection/auto_ban.rs:108-177).  A call checks is_banned,     *)
(* then works on the history entry under the entry's lock, drops it, and   *)
(* then inserts the ban and bumps the subnet counter, each a step of its   *)
(* own.  No time passes between the calls.                                 *)
(***************************************************************************)
BanThreads == {1, 2, 3}

\* bound
MaxCreated == 3            \* cap of the observer's count of created bans

IdleBanCall == [pc |-> "idle", ip |-> "none", duration |-> 0, reason |-> "none",
                block_count |-> 0]

BanCallsInit ==
    /\ ban_calls = [t \in BanThreads |-> IdleBanCall]
    /\ ban_created = [ip \in BanIps |-> 0]

\* record_block up to and including the is_banned check
RecordBlockCheck(t, ip) ==
    /\ ban_calls[t].pc = "idle"
    /\ Len(ban_history[ip].blocks) < MaxHistoryLen
    /\ ban_created[ip] < MaxCreated
    /\ IF ~auto_ban_enabled \/ AlreadyBanned(active_bans, ip, ban_now)
       THEN /\ ban_last' = [op |-> "record_block", ip |-> ip, ret |-> FALSE]
            /\ UNCHANGED ban_calls
       ELSE /\ ban_calls' = [ban_calls EXCEPT ![t] = [IdleBanCall EXCEPT
                                 !.pc = "checked", !.ip = ip]]
            /\ UNCHANGED ban_last
    /\ UNCHANGED <<ban_now, ban_history, active_bans, subnet_bans, ban_created>>
    /\ UNCHANGED NotBanCalls

\* record_block under the lock of the history entry: the block is pushed,
\* the windows are counted, and ban_count is incremented when a ban is due
RecordBlockHistory(t) ==
    /\ ban_calls[t].pc = "checked"
    /\ LET ip == ban_calls[t].ip
           h0 == IF ban_history[ip].present THEN ban_history[ip]
                 ELSE [present |-> TRUE, blocks |-> <<>>, ban_count |-> 0]
           blocks == Append(HistoryCleanup(h0.blocks, ban_now), ban_now)
           blocks_1h == count_in_window(blocks, ban_now, Window1hSecs)
           blocks_15m == count_in_window(blocks, ban_now, Window15mSecs)
           blocks_5m == count_in_window(blocks, ban_now, Window5mSecs)
           ban == BanLadder(h0.ban_count, blocks_1h, blocks_15m, blocks_5m)
       IN  IF ban.duration > 0
           THEN /\ ban_history' = [ban_history EXCEPT ![ip] =
                                     [h0 EXCEPT !.blocks = blocks, !.ban_count = @ + 1]]
                /\ ban_calls' = [ban_calls EXCEPT ![t] =
                       [pc |-> "insert", ip |-> ip, duration |-> ban.duration,
                        reason |-> ban.reason,
                        block_count |-> Max(blocks_5m, Max(blocks_15m, blocks_1h))]]
                /\ UNCHANGED ban_last
           ELSE /\ ban_history' = [ban_history EXCEPT ![ip] =
                                     [h0 EXCEPT !.blocks = blocks]]
                /\ ban_calls' = [ban_calls EXCEPT ![t] = IdleBanCall]
                /\ ban_last' = [op |-> "record_block", ip |-> ip, ret |-> FALSE]
    /\ UNCHANGED <<ban_now, active_bans, subnet_bans, ban_created>>
    /\ UNCHANGED NotBanCalls

\* record_block: self.bans.insert(ip, BanEntry { .. })
RecordBlockInsert(t) ==
    /\ ban_calls[t].pc = "insert"
    /\ active_bans' = [active_bans EXCEPT ![ban_calls[t].ip] =
                          [present |-> TRUE, banned_at |-> ban_now,
                           duration |-> ban_calls[t].duration,
                           reason |-> ban_calls[t].reason,
                           block_count |-> ban_calls[t].block_count]]
    /\ ban_calls' = [ban_calls EXCEPT ![t].pc = "subnet"]
    /\ UNCHANGED <<ban_now, ban_history, subnet_bans, ban_last, ban_created>>
    /\ UNCHANGED NotBanCalls

\* record_block: the subnet counter, and return true
RecordBlockSubnet(t) ==
    /\ ban_calls[t].pc = "subnet"
    /\ LET ip == ban_calls[t].ip
           sn == ip_to_subnet_str(ip)
       IN  /\ subnet_bans' = [subnet_bans EXCEPT ![sn] =
                                 IF @ = NoSubnetCount THEN 1 ELSE @ + 1]
           /\ ban_last' = [op |-> "record_block", ip |-> ip, ret |-> TRUE]
           /\ ban_created' = [ban_created EXCEPT ![ip] = @ + 1]
    /\ ban_calls' = [ban_calls EXCEPT ![t] = IdleBanCall]
    /\ UNCHANGED <<ban_now, ban_history, active_bans>>
    /\ UNCHANGED NotBanCalls

BanCallsNext ==
    \/ \E t \in BanThreads, ip \in BanIps : RecordBlockCheck(t, ip)
    \/ \E t \in BanThreads : RecordBlockHistory(t)
    \/ \E t \in BanThreads : RecordBlockInsert(t)
    \/ \E t \in BanThreads : RecordBlockSubnet(t)

\* C34: of the record_block calls for one IP that run concurrently, at most
\* one creates a ban: only one returns true, ban_count is incremented once
\* and the subnet-ban counter is bumped once.
C34_OneBanPerIp ==
    \A ip \in BanIps :
        /\ ban_created[ip] <= 1
        /\ ban_history[ip].ban_count <= 1
        /\ subnet_bans[ip_to_subnet_str(ip)] <= 1

(***************************************************************************)
(* The HTTPS accept loop at the granularity of its two tracker calls       *)
(* (src/src/proxy/server.rs:107-114): check_connection, then               *)
(* register_connection.  Connection tasks that end and the cleanup loop    *)
(* run on other workers and may act between the two calls.  The two calls  *)
(* are consecutive statements with no await between them, so the clock,    *)
(* whose resolution is half a second, does not advance between them.       *)
(***************************************************************************)
NoPending == [pc |-> "idle", ip |-> "none"]

AcceptStepsInit ==
    /\ accept_pending = NoPending

\* The accept loop up to the match on check_connection: Drop and Tarpit end
\* the iteration, Allow goes on to register_connection
AcceptCheck(ip) ==
    /\ accept_pending.pc = "idle"
    /\ FreeConn # {}
    /\ LET c == CHOOSE x \in FreeConn : \A y \in FreeConn : x <= y
           r == CheckConnection(ip_states, ip, l4_now)
       IN  /\ ip_states' = r.states
           /\ \/ /\ r.action = "Allow"
                 /\ l4_totals' = BumpTotal(l4_totals, "allowed")
                 /\ accept_pending' = [pc |-> "allowed", ip |-> ip]
                 /\ UNCHANGED conn_tasks
              \/ /\ r.action = "Drop"
                 /\ l4_totals' = BumpTotal(l4_totals, "dropped")
                 /\ conn_tasks' = [conn_tasks EXCEPT ![c] = [st |-> "dropped", ip |-> ip]]
                 /\ UNCHANGED accept_pending
              \/ /\ r.action = "Tarpit"
                 /\ l4_totals' = BumpTotal(l4_totals, "tarpitted")
                 /\ conn_tasks' = [conn_tasks EXCEPT ![c] = [st |-> "tarpitted", ip |-> ip]]
                 /\ UNCHANGED accept_pending
    /\ UNCHANGED l4_now
    /\ UNCHANGED NotAcceptSteps

\* The Allow arm: l4.register_connection(peer_ip), then the connection task
\* is spawned
AcceptRegister ==
    /\ accept_pending.pc = "allowed"
    /\ LET c == CHOOSE x \in FreeConn : \A y \in FreeConn : x <= y
       IN  /\ ip_states' = RegisterConnection(ip_states, accept_pending.ip)
           /\ conn_tasks' = [conn_tasks EXCEPT ![c] =
                                [st |-> "running", ip |-> accept_pending.ip]]
    /\ accept_pending' = NoPending
    /\ UNCHANGED <<l4_now, l4_totals>>
    /\ UNCHANGED NotAcceptSteps

AcceptStepsNext ==
    \/ \E ip \in L4Ips : AcceptCheck(ip)
    \/ AcceptRegister
    \/ \E c \in ConnIds : ConnFinish(c)
    \/ \E c \in ConnIds : ConnPanic(c)
    \/ L4Cleanup
    \/ accept_pending.pc = "idle" /\ L4Tick

\* Connections of an IP that were registered and whose task has not called
\* unregister_connection
RegisteredOpen(ip) ==
    Cardinality({c \in ConnIds : /\ conn_tasks[c].ip = ip
                                 /\ conn_tasks[c].st \in {"running", "panicked"}})

\* C37: for every IP, the number of its connections that are registered and
\* not yet unregistered in the L4 tracker never exceeds max_concurrent_per_ip,
\* under any interleaving of accepts, connection closes and cleanup() runs.
C37_RegisteredWithinLimit ==
    \A ip \in L4Ips : RegisteredOpen(ip) <= max_concurrent_per_ip

\* An IP holds max_concurrent_per_ip registered connections and a further
\* connection of it was dropped at the limit
C37_Witness ==
    \E ip \in L4Ips :
        /\ RegisteredOpen(ip) = max_concurrent_per_ip
        /\ ip_states[ip].concurrent = max_concurrent_per_ip
        /\ \E c \in ConnIds : conn_tasks[c] = [st |-> "dropped", ip |-> ip]

(***************************************************************************)
(* The connection limit of the HTTPS accept loop                           *)
(* (src/src/proxy/server.rs:100-105, 262-269, 417-426;                     *)
(* src/src/proxy/connection.rs:45-110).  The peers are distinct and under  *)
(* every L4 limit, so check_connection allows each of them.                *)
(***************************************************************************)
ClientConns == 1..4

\* ServerConfig as configured for the model
max_connections == 2

AdmitInit ==
    /\ active = {}
    /\ client_conns = [c \in ClientConns |-> "none"]

\* ConnectionTracker::active_count
active_count == Cardinality(active)

\* One iteration of the accept loop for a new stream: over the limit the
\* stream is dropped, else the connection task is spawned and starts the TLS
\* handshake
AdmitAccept(c) ==
    /\ client_conns[c] = "none"
    /\ IF active_count >= max_connections
       THEN client_conns' = [client_conns EXCEPT ![c] = "refused"]
       ELSE client_conns' = [client_conns EXCEPT ![c] = "handshake"]
    /\ UNCHANGED active
    /\ UNCHANGED NotAdmit

\* handle_tls_connection after the handshake: connections.register, and the
\* guard that removes the connection on drop
AdmitRegister(c) ==
    /\ client_conns[c] = "handshake"
    /\ active' = active \cup {c}
    /\ client_conns' = [client_conns EXCEPT ![c] = "established"]
    /\ UNCHANGED NotAdmit

\* The handshake fails or times out: the task returns before it registers
AdmitHandshakeFails(c) ==
    /\ client_conns[c] = "handshake"
    /\ client_conns' = [client_conns EXCEPT ![c] = "closed"]
    /\ UNCHANGED active
    /\ UNCHANGED NotAdmit

\* The connection ends: ConnectionGuard::drop removes it from the tracker
AdmitClose(c) ==
    /\ client_conns[c] = "established"
    /\ active' = active \ {c}
    /\ client_conns' = [client_conns EXCEPT ![c] = "closed"]
    /\ UNCHANGED NotAdmit

AdmitNext ==
    \/ \E c \in ClientConns : AdmitAccept(c)
    \/ \E c \in ClientConns : AdmitRegister(c)
    \/ \E c \in ClientConns : AdmitHandshakeFails(c)
    \/ \E c \in ClientConns : AdmitClose(c)

\* Client connections that are accepted and not yet closed
OpenConns == {c \in ClientConns : client_conns[c] \in {"handshake", "established"}}

\* C38: the number of client connections that are open at the same time
\* (accepted and not yet closed, including those still in the TLS handshake)
\* never exceeds the configured max_connections.
C38_OpenWithinMaxConnections ==
    Cardinality(OpenConns) <= max_connections

(***************************************************************************)
(* IP reputation entries, their decay and the periodic cleanup             *)
(* (src/src/protection/ip_reputation.rs, src/src/main.rs:100-122).         *)
(* Scores are kept in hundredths of a point; a decay period multiplies the *)
(* score by (100 - decay_percent) / 100, rounded down.  The IP is not a    *)
(* Tor exit node and has no category.                                      *)
(***************************************************************************)
RepIps == {"10.0.0.1"}

\* bounds of the reputation model
RepTickSecs == 600         \* the clock advances in steps of this many seconds
RepQuietStartMax == 1200   \* an IP that turns quiet does so by this time
MaxRepNow == 18000         \* last clock value, seconds
MaxRepScore == 10          \* events are recorded while the score stays within this
RepUnit == 100             \* hundredths of a point

\* IpReputationConfig: defaults
decay_interval_secs == 600
decay_percent == 10
high_reputation_score == 20

\* program constants
stale_threshold == 3600    \* cleanup
RepBlockPoints == 5        \* record_block
RepChallengePoints == 2    \* record_challenge

NoRepEntry == [present |-> FALSE, score |-> 0, last_seen |-> 0, last_decay |-> 0]
NoRepCheck == [score |-> 0, block |-> FALSE]

RepInit ==
    /\ rep_now = 0
    /\ rep_entries = [ip \in RepIps |-> NoRepEntry]
    /\ rep_quiet = [ip \in RepIps |-> FALSE]
    /\ rep_last_check = [ip \in RepIps |-> NoRepCheck]

\* score * (1.0 - decay_percent / 100.0).powi(periods)
RECURSIVE Decayed(_, _)
Decayed(score, periods) ==
    IF periods = 0 THEN score
    ELSE Decayed((score * (100 - decay_percent)) \div 100, periods - 1)

\* IpReputationManager::apply_decay
apply_decay(entry, now) ==
    IF now - entry.last_decay >= decay_interval_secs
    THEN [entry EXCEPT !.score = Decayed(@, (now - entry.last_decay) \div decay_interval_secs),
                       !.last_decay = now]
    ELSE entry

\* entries.entry(ip).or_insert_with(IpEntry::new)
EntryOrNew(entries, ip, now) ==
    IF entries[ip].present THEN entries[ip]
    ELSE [present |-> TRUE, score |-> 0, last_seen |-> now, last_decay |-> now]

\* IpReputationManager::check: (score_to_add, should_block); the decayed
\* score is a local of the call
rep_check(entries, ip, now) ==
    IF ~entries[ip].present THEN [score |-> 0, block |-> FALSE]
    ELSE LET entry == entries[ip]
             elapsed_since_decay == now - entry.last_decay
             rep_score == IF elapsed_since_decay > decay_interval_secs
                          THEN Decayed(entry.score, elapsed_since_decay \div decay_interval_secs)
                          ELSE entry.score
         IN  IF rep_score >= reputation_block_threshold * RepUnit
             THEN [score |-> rep_score, block |-> TRUE]
             ELSE IF rep_score >= 50 * RepUnit
             THEN [score |-> high_reputation_score * RepUnit, block |-> FALSE]
             ELSE IF rep_score >= 25 * RepUnit
             THEN [score |-> (high_reputation_score * RepUnit) \div 2, block |-> FALSE]
             ELSE [score |-> 0, block |-> FALSE]

\* IpReputationManager::cleanup: keep entries with score > 1 or seen in the
\* last hour
rep_cleanup(entries, now) ==
    [ip \in RepIps |->
        IF ~entries[ip].present THEN entries[ip]
        ELSE IF entries[ip].score > 1 * RepUnit
                \/ now - entries[ip].last_seen < stale_threshold
             THEN entries[ip]
             ELSE NoRepEntry]

\* A request of ip reaches the reputation stage of the pipeline
RepCheck(ip) ==
    /\ ~rep_quiet[ip]
    /\ rep_last_check' = [rep_last_check EXCEPT ![ip] = rep_check(rep_entries, ip, rep_now)]
    /\ UNCHANGED <<rep_now, rep_entries, rep_quiet>>
    /\ UNCHANGED NotRep

\* IpReputationManager::record_block
RepRecordBlock(ip) ==
    /\ ~rep_quiet[ip]
    /\ LET entry == apply_decay(EntryOrNew(rep_entries, ip, rep_now), rep_now)
       IN  /\ entry.score + RepBlockPoints * RepUnit <= MaxRepScore * RepUnit
           /\ rep_entries' = [rep_entries EXCEPT ![ip] =
                  [entry EXCEPT !.score = Min(@ + RepBlockPoints * RepUnit, 100 * RepUnit),
                                !.last_seen = rep_now]]
    /\ UNCHANGED <<rep_now, rep_quiet, rep_last_check>>
    /\ UNCHANGED NotRep

\* IpReputationManager::record_challenge
RepRecordChallenge(ip) ==
    /\ ~rep_quiet[ip]
    /\ LET entry == apply_decay(EntryOrNew(rep_entries, ip, rep_now), rep_now)
       IN  /\ entry.score + RepChallengePoints * RepUnit <= MaxRepScore * RepUnit
           /\ rep_entries' = [rep_entries EXCEPT ![ip] =
                  [entry EXCEPT !.score = Min(@ + RepChallengePoints * RepUnit, 100 * RepUnit),
                                !.last_seen = rep_now]]
    /\ UNCHANGED <<rep_now, rep_quiet, rep_last_check>>
    /\ UNCHANGED NotRep

\* IpReputationManager::record_pass: existing entries only, score - 0.5
RepRecordPass(ip) ==
    /\ ~rep_quiet[ip]
    /\ rep_entries[ip].present
    /\ LET entry == apply_decay(rep_entries[ip], rep_now)
       IN  rep_entries' = [rep_entries EXCEPT ![ip] =
               [entry EXCEPT !.score = Max(@ - RepUnit \div 2, 0),
                             !.last_seen = rep_now]]
    /\ UNCHANGED <<rep_now, rep_quiet, rep_last_check>>
    /\ UNCHANGED NotRep

\* cleanup_loop tick: ip_reputation.cleanup()
RepCleanup ==
    /\ rep_entries' = rep_cleanup(rep_entries, rep_now)
    /\ UNCHANGED <<rep_now, rep_quiet, rep_last_check>>
    /\ UNCHANGED NotRep

\* The IP generates no event from now on
RepQuietBegins(ip) ==
    /\ ~rep_quiet[ip]
    /\ rep_now <= RepQuietStartMax
    /\ rep_quiet' = [rep_quiet EXCEPT ![ip] = TRUE]
    /\ UNCHANGED <<rep_now, rep_entries, rep_last_check>>
    /\ UNCHANGED NotRep

\* Time passes; past RepQuietStartMax only once every IP has turned quiet
RepTick ==
    /\ rep_now + RepTickSecs <= MaxRepNow
    /\ rep_now + RepTickSecs <= RepQuietStartMax \/ \A ip \in RepIps : rep_quiet[ip]
    /\ rep_now' = rep_now + RepTickSecs
    /\ UNCHANGED <<rep_entries, rep_quiet, rep_last_check>>
    /\ UNCHANGED NotRep

RepNext ==
    \/ \E ip \in RepIps : RepCheck(ip)
    \/ \E ip \in RepIps : RepRecordBlock(ip)
    \/ \E ip \in RepIps : RepRecordChallenge(ip)
    \/ \E ip \in RepIps : RepRecordPass(ip)
    \/ \E ip \in RepIps : RepQuietBegins(ip)
    \/ RepCleanup
    \/ RepTick

\* C39: every reputation entry of an IP that stops generating events is
\* eventually evicted by the periodic cleanup(): its score decays with time
\* and the entry is dropped once it has been idle for more than 1 h.
C39_QuietEntryEvicted ==
    \A ip \in RepIps :
        (rep_quiet[ip] /\ rep_entries[ip].present) ~> ~rep_entries[ip].present

(***************************************************************************)
(* DistributedDetector::check called by several request tasks at once, at  *)
(* the granularity of its operations on the shared fields                  *)
(* (src/src/protection/distributed.rs:73-171, 201-221).  The fields are    *)
(* atomics and concurrent maps; no lock is held across the call.  The      *)
(* rotation runs under the write lock of window_start, which the other     *)
(* steps of check do not take, and is taken here as one step.              *)
(***************************************************************************)
DetThreads == {1, 2}
\* calls of check begun in a run of the model
MaxDetCalls == 3

DetRequests == [ip : DistIps, path : DistPaths, ua : {NoUserAgent}]

IdleDetCall == [pc |-> "idle", ip |-> "none", path |-> "none", ua |-> NoUserAgent,
                is_new |-> FALSE]

DetCallsInit ==
    /\ det_calls = [t \in DetThreads |-> IdleDetCall]
    /\ det_begun = 0

\* check: self.maybe_rotate_window()
DetRotate(t, req) ==
    /\ det_calls[t].pc = "idle"
    /\ det_begun < MaxDetCalls
    /\ det_begun' = det_begun + 1
    /\ detector' = maybe_rotate_window(detector, dist_now)
    /\ det_calls' = [det_calls EXCEPT ![t] =
           [pc |-> "rotated", ip |-> req.ip, path |-> req.path, ua |-> req.ua,
            is_new |-> FALSE]]
    /\ UNCHANGED <<dist_now, reqs_prev, reqs_cur, dist_last>>
    /\ UNCHANGED NotDetCalls

\* check: self.total_requests.fetch_add(1)
DetCountRequest(t) ==
    /\ det_calls[t].pc = "rotated"
    /\ detector' = [detector EXCEPT !.total_requests = @ + 1]
    /\ det_calls' = [det_calls EXCEPT ![t].pc = "counted"]
    /\ UNCHANGED <<dist_now, reqs_prev, reqs_cur, dist_last, det_begun>>
    /\ UNCHANGED NotDetCalls

\* check: *path_counts.entry(path).or_insert(0) += 1, and the same for
\* ua_counts
DetCountPath(t) ==
    /\ det_calls[t].pc = "counted"
    /\ detector' = [detector EXCEPT !.path_counts[det_calls[t].path] = @ + 1,
                                    !.ua_counts = @ \cup {det_calls[t].ua}]
    /\ det_calls' = [det_calls EXCEPT ![t].pc = "path counted"]
    /\ UNCHANGED <<dist_now, reqs_prev, reqs_cur, dist_last, det_begun>>
    /\ UNCHANGED NotDetCalls

\* check: let is_new = !self.known_ips.contains_key(&ip)
DetReadKnown(t) ==
    /\ det_calls[t].pc = "path counted"
    /\ det_calls' = [det_calls EXCEPT ![t].pc = "novelty read",
                                      ![t].is_new = det_calls[t].ip \notin detector.known_ips]
    /\ UNCHANGED <<dist_now, detector, reqs_prev, reqs_cur, dist_last, det_begun>>
    /\ UNCHANGED NotDetCalls

\* check: if is_new { self.new_ip_count.fetch_add(1) }
DetCountNewIp(t) ==
    /\ det_calls[t].pc = "novelty read"
    /\ detector' = [detector EXCEPT !.new_ip_count =
                                       IF det_calls[t].is_new THEN @ + 1 ELSE @]
    /\ det_calls' = [det_calls EXCEPT ![t].pc = "novelty counted"]
    /\ UNCHANGED <<dist_now, reqs_prev, reqs_cur, dist_last, det_begun>>
    /\ UNCHANGED NotDetCalls

\* check: self.window_ips.insert(ip, ()); self.known_ips.insert(ip, now)
DetInsertIp(t) ==
    /\ det_calls[t].pc = "novelty counted"
    /\ detector' = [detector EXCEPT !.window_ips = @ \cup {det_calls[t].ip},
                                    !.known_ips = @ \cup {det_calls[t].ip}]
    /\ det_calls' = [det_calls EXCEPT ![t].pc = "inserted"]
    /\ UNCHANGED <<dist_now, reqs_prev, reqs_cur, dist_last, det_begun>>
    /\ UNCHANGED NotDetCalls

\* check, from the load of total_requests to the return: the signals and
\* attack_active
DetEvaluate(t) ==
    /\ det_calls[t].pc = "inserted"
    /\ LET is_attack == EnoughSignals(SignalCount(detector))
       IN  detector' =
             IF detector.total_requests < MinWindowRequests THEN detector
             ELSE IF is_attack /\ ~detector.attack_active
                      THEN [detector EXCEPT !.attack_active = TRUE]
             ELSE IF ~is_attack /\ detector.attack_active
                      THEN [detector EXCEPT !.attack_active = FALSE]
             ELSE detector
    /\ det_calls' = [det_calls EXCEPT ![t] = IdleDetCall]
    /\ UNCHANGED <<dist_now, reqs_prev, reqs_cur, dist_last, det_begun>>
    /\ UNCHANGED NotDetCalls

DetCallsNext ==
    \/ \E t \in DetThreads, req \in DetRequests : DetRotate(t, req)
    \/ \E t \in DetThreads : DetCountRequest(t)
    \/ \E t \in DetThreads : DetCountPath(t)
    \/ \E t \in DetThreads : DetReadKnown(t)
    \/ \E t \in DetThreads : DetCountNewIp(t)
    \/ \E t \in DetThreads : DetInsertIp(t)
    \/ \E t \in DetThreads : DetEvaluate(t)
    \/ DistTick

\* C40: within a detector window, under any interleaving of concurrent
\* check() calls and window rotation, new_ip_count never exceeds the number
\* of distinct IPs in window_ips and no per-path count exceeds
\* total_requests, so the new-IP ratio and the path concentration always lie
\* in [0, 1].  Stated for the states in which no call of check is under way,
\* where the counts of every call are complete.
C40_WindowCountsConsistent ==
    (\A t \in DetThreads : det_calls[t].pc = "idle") =>
        /\ detector.new_ip_count <= Cardinality(detector.window_ips)
        /\ \A p \in DistPaths : detector.path_counts[p] <= detector.total_requests

(***************************************************************************)
(* Specifications: one per component; the other components stay idle       *)
(***************************************************************************)
EscIdle == EscInit /\ sustained_checks_required = 3
CallersIdle == ThreadsInit /\ EscCallsInit /\ FlightInit
ExtIdle == TlsInit /\ WebInit /\ SubInit /\ SlowInit /\ RateInit /\ AsnInit /\ ColInit /\ ExchangeInit /\ BanCallsInit /\ AcceptStepsInit /\ AdmitInit /\ RepInit /\ DetCallsInit

InitL4 == L4Init /\ EscIdle /\ BanInit /\ BlkInit /\ PipeInit /\ CkInit /\ WinInit /\ DistInit /\ CallersIdle /\ ExtIdle
SpecL4 == InitL4 /\ [][L4Next]_vars

InitEsc == L4Init /\ EscInit /\ BanInit /\ BlkInit /\ PipeInit /\ CkInit /\ WinInit /\ DistInit /\ CallersIdle /\ ExtIdle
SpecEsc == InitEsc /\ [][EscNext]_vars

InitBan == L4Init /\ EscIdle /\ BanInit /\ BlkInit /\ PipeInit /\ CkInit /\ WinInit /\ DistInit /\ CallersIdle /\ ExtIdle
SpecBan == InitBan /\ [][BanNext]_vars

InitBlk == L4Init /\ EscIdle /\ BanInit /\ BlkInit /\ PipeInit /\ CkInit /\ WinInit /\ DistInit /\ CallersIdle /\ ExtIdle
SpecBlk == InitBlk /\ [][BlkNext]_vars

InitPipe == L4Init /\ EscIdle /\ BanInit /\ BlkInit /\ PipeInit /\ CkInit /\ WinInit /\ DistInit /\ CallersIdle /\ ExtIdle
SpecPipe == InitPipe /\ [][PipeNext]_vars

InitCookie == L4Init /\ EscIdle /\ BanInit /\ BlkInit /\ PipeInit /\ CkInit /\ WinInit /\ DistInit /\ CallersIdle /\ ExtIdle
SpecCookie == InitCookie /\ [][CkNext]_vars

InitWin == L4Init /\ EscIdle /\ BanInit /\ BlkInit /\ PipeInit /\ CkInit /\ WinInit /\ DistInit /\ CallersIdle /\ ExtIdle
SpecWin == InitWin /\ [][WinNext]_vars

InitDist == L4Init /\ EscIdle /\ BanInit /\ BlkInit /\ PipeInit /\ CkInit /\ WinInit /\ DistInit /\ CallersIdle /\ ExtIdle
SpecDist == InitDist /\ [][DistNext]_vars

InitL4Calls == L4Init /\ EscIdle /\ BanInit /\ BlkInit /\ PipeInit /\ CkInit /\ WinInit /\ DistInit /\ CallersIdle /\ ExtIdle
SpecL4Calls == InitL4Calls /\ [][L4CallsNext]_vars

InitEscCalls == L4Init /\ EscInit /\ BanInit /\ BlkInit /\ PipeInit /\ CkInit /\ WinInit /\ DistInit /\ CallersIdle /\ ExtIdle
SpecEscCalls == InitEscCalls /\ [][EscCallsNext]_vars

InitStages == L4Init /\ EscIdle /\ BanInit /\ BlkInit /\ PipeInit /\ CkInit /\ WinInit /\ DistInit /\ CallersIdle /\ ExtIdle
SpecStages == InitStages /\ [][StagesNext]_vars

InitTls == L4Init /\ EscIdle /\ BanInit /\ BlkInit /\ PipeInit /\ CkInit /\ WinInit /\ DistInit /\ CallersIdle /\ ExtIdle
SpecTls == InitTls /\ [][TlsNext]_vars

InitWeb == L4Init /\ EscIdle /\ BanInit /\ BlkInit /\ PipeInit /\ CkInit /\ WinInit /\ DistInit /\ CallersIdle /\ ExtIdle
SpecWeb == InitWeb /\ [][WebNext]_vars

InitSub == L4Init /\ EscIdle /\ BanInit /\ BlkInit /\ PipeInit /\ CkInit /\ WinInit /\ DistInit /\ CallersIdle /\ ExtIdle
SpecSub == InitSub /\ [][SubNext]_vars

InitSlow == L4Init /\ EscIdle /\ BanInit /\ BlkInit /\ PipeInit /\ CkInit /\ WinInit /\ DistInit /\ CallersIdle /\ ExtIdle
SpecSlow == InitSlow /\ [][SlowNext]_vars

InitL4Rate == L4Init /\ EscIdle /\ BanInit /\ BlkInit /\ PipeInit /\ CkInit /\ WinInit /\ DistInit /\ CallersIdle /\ ExtIdle
SpecL4Rate == InitL4Rate /\ [][L4RateNext]_vars

InitAsn == L4Init /\ EscIdle /\ BanInit /\ BlkInit /\ PipeInit /\ CkInit /\ WinInit /\ DistInit /\ CallersIdle /\ ExtIdle
SpecAsn == InitAsn /\ [][AsnNext]_vars

InitQuiet == L4Init /\ EscInit /\ BanInit /\ BlkInit /\ PipeInit /\ CkInit /\ WinInit /\ DistInit /\ CallersIdle /\ ExtIdle
SpecQuiet ==
    /\ InitQuiet /\ [][QuietNext]_vars
    /\ WF_vars(ReporterEvaluate)
    /\ WF_vars(\E tr \in TrafficKinds : TrafficInterval(tr) /\ QuietInTime')

InitExchange == L4Init /\ EscIdle /\ BanInit /\ BlkInit /\ PipeInit /\ CkInit /\ WinInit /\ DistInit /\ CallersIdle /\ ExtIdle
SpecExchange == InitExchange /\ [][ExchangeNext]_vars

InitBanCalls == L4Init /\ EscIdle /\ BanInit /\ BlkInit /\ PipeInit /\ CkInit /\ WinInit /\ DistInit /\ CallersIdle /\ ExtIdle
SpecBanCalls == InitBanCalls /\ [][BanCallsNext]_vars

InitBanHours == L4Init /\ EscIdle /\ BanInit /\ BlkInit /\ PipeInit /\ CkInit /\ WinInit /\ DistInit /\ CallersIdle /\ ExtIdle
SpecBanHours == InitBanHours /\ [][BanHoursNext]_vars

InitAcceptSteps == L4Init /\ EscIdle /\ BanInit /\ BlkInit /\ PipeInit /\ CkInit /\ WinInit /\ DistInit /\ CallersIdle /\ ExtIdle
SpecAcceptSteps == InitAcceptSteps /\ [][AcceptStepsNext]_vars

InitAdmit == L4Init /\ EscIdle /\ BanInit /\ BlkInit /\ PipeInit /\ CkInit /\ WinInit /\ DistInit /\ CallersIdle /\ ExtIdle
SpecAdmit == InitAdmit /\ [][AdmitNext]_vars

InitRep == L4Init /\ EscIdle /\ BanInit /\ BlkInit /\ PipeInit /\ CkInit /\ WinInit /\ DistInit /\ CallersIdle /\ ExtIdle
SpecRep ==
    /\ InitRep /\ [][RepNext]_vars
    /\ WF_vars(RepCleanup)
    /\ WF_vars(RepTick)

InitDetCalls == L4Init /\ EscIdle /\ BanInit /\ BlkInit /\ PipeInit /\ CkInit /\ WinInit /\ DistInit /\ CallersIdle /\ ExtIdle
SpecDetCalls == InitDetCalls /\ [][DetCallsNext]_vars

====
